---- MODULE Spec2Model ----
(***************************************************************************)
(* Model of the multi-tap classifier of toshy_config_barebones.py          *)
(* (isMultiTap and its helpers) on a single logical timeline: tap events   *)
(* delivered by the keymapper, finalize callbacks scheduled with           *)
(* loop.call_later, and the module-level dict tap_states.                  *)
(*                                                                         *)
(* Time is counted in ticks.  A tap handler reads the clock once           *)
(* (current_time = time.time()); a finalize callback never runs before     *)
(* its deadline, and a tap event that is ready in the same loop iteration  *)
(* as a due callback is handled before it.                                 *)
(*                                                                         *)
(* Two further specifications share the module: SpecRx (toRgxStr, negRgx   *)
(* and re.search on small patterns and texts) and SpecMp (matchProps: the  *)
(* construction of matchers, their evaluation, the call counter and the    *)
(* focus flag).  Each specification leaves the variables of the others at  *)
(* their initial values.                                                   *)
(***************************************************************************)
EXTENDS Integers, Sequences, FiniteSets, TLC

\* ---------------------------------------------------------------- bounds
MaxTime == 6          \* the clock runs from 0 to MaxTime ticks
MaxLate == 1          \* a due callback runs at most MaxLate ticks late
MaxTapsAll == 6       \* tap events delivered to the binding "kAll"
MaxTapsNo1 == 2       \* tap events delivered to the binding "kNo1"
TapInterval == 3      \* tap_interval of the registrations, in ticks
MinTapDelay == 1      \* min_tap_delay of the registrations, in ticks
MaxLabels == 2        \* labels in a list given to toRgxStr
MaxTextLen == 3       \* length of a text searched with a negated pattern

\* ------------------------------------------------------- registrations
\* Two registered bindings, named by their action_key.  "kAll" binds an
\* action to every count 1..5 (as the Shift-Alt-RC-t binding does); "kNo1"
\* leaves tap_1_action unset (None blocks the single tap) and binds 2 and 3.
Keys == {"kAll", "kNo1"}

Actions(key) == IF key = "kAll" THEN 1..5 ELSE {2, 3}

MaxTaps(key) == IF key = "kAll" THEN MaxTapsAll ELSE MaxTapsNo1

\* EventContext values handed to the handlers
Ctxs == {"ctxA", "ctxB"}

\* finalize_handle = None
None == 0

VARIABLES
    tap_states,     \* dict action_key -> state record (absent key = Idle)
    timers,         \* pending loop.call_later handles: id -> callback
    now,            \* the clock
    op,             \* the handler that ran last, with its inputs
    fin,            \* <<>> or <<r>>: the finalization made by the last step
    ntaps,          \* per key: tap events delivered so far
    chain,          \* per key: taps of the current run as the timing defines it
    rx,             \* negRgx(toRgxStr(labels)) and its search in a text
    total_matchProps_iterations,        \* global counter of matchProps calls
    MAX_MATCHPROPS_ITERATIONS_REACHED,  \* global flag set at the threshold
    screen_has_focus,                   \* cnfg.screen_has_focus
    held,           \* the last matchProps call: its arguments and what it returned
    mres,           \* the last operation on a matcher and its outcome
    _MULTITAP_CONFIG,   \* the module-level dict of the two tunables
    cfgop,          \* the last multitap_config call: arguments and values passed through
    handlers,       \* the closures returned by isMultiTap, by registration
    mt_states,      \* tap_states as the registered handlers use it
    run_by,         \* per action_key: the handler whose tap started the current run
    regop,          \* the last registration, tap or finalization
    tapTime1,       \* isDoubleTap: time of the first tap of the cycle
    tapCount,       \* isDoubleTap: 0, or 1 while a cycle is open
    last_dt_combo,  \* isDoubleTap: output value of the tap that opened the cycle
    dtnow,          \* the clock of the isDoubleTap handlers
    dtop,           \* the last call of an isDoubleTap handler
    cmd,            \* one process_multitap_command call: command, sink and items sent
    term,           \* one run_cmd_lst_in_terminal call: arguments, system and outcome
    env,            \* the environment the config sees and its environ_api call
    ief,            \* _enter_is_F2 and the calls of the iEF2 handlers
    kb,             \* KBTYPE, kbtype_cache_dct, cnfg.override_kbtype and the last call
    rpt             \* a stream of taps on one binding: times since the taps before

tapvars == <<tap_states, timers, now, op, fin, ntaps, chain>>

mpvars == <<total_matchProps_iterations, MAX_MATCHPROPS_ITERATIONS_REACHED,
            screen_has_focus, held, mres>>

cfgvars == <<_MULTITAP_CONFIG, cfgop>>

\* the variables of the specifications SpecCfg and later
regvars == <<handlers, mt_states, run_by, regop>>

dtvars == <<tapTime1, tapCount, last_dt_combo, dtnow, dtop>>

\* the variables of the specifications SpecEnv, SpecIef and SpecKb
latevars == <<env, ief, kb, rpt>>

morevars == <<cfgvars, regvars, dtvars, cmd, term, latevars>>

vars == <<tapvars, rx, mpvars, morevars>>

\* the parts of the state a specification does not use stay at these values
RxOff == [phase |-> "off", labels |-> <<>>, text |-> <<>>, pat |-> <<>>, found |-> FALSE]

\* no matchProps call made yet; <<>> is the empty keyword dict
NoCtx == [wm_class |-> <<>>, wm_name |-> <<>>, device_name |-> <<>>,
          numlock_on |-> FALSE, capslock_on |-> FALSE]

MpOff ==
    /\ total_matchProps_iterations = 0
    /\ MAX_MATCHPROPS_ITERATIONS_REACHED = FALSE
    /\ screen_has_focus = TRUE
    /\ held = [kind |-> "none", a |-> <<>>]
    /\ mres = [op |-> "none", raised |-> "", val |-> FALSE, ctx |-> NoCtx]

\* Times of the tunables are counted in units of 2.5 ms (0.25 s = 100), so
\* that a quarter of every interval used is a whole number.
DefaultTapInterval == 100

DefaultMinTapDelay == 28

\* a keyword argument: None, a number (int or float) or another object
NoneArg == [t |-> "none", v |-> 0]

CfgOff ==
    /\ _MULTITAP_CONFIG = [tap_interval |-> DefaultTapInterval,
                           min_tap_delay |-> DefaultMinTapDelay]
    /\ cfgop = [op |-> "none", ti |-> NoneArg, mtd |-> NoneArg,
                prev |-> [tap_interval |-> DefaultTapInterval,
                          min_tap_delay |-> DefaultMinTapDelay],
                stored |-> [tap_interval |-> DefaultTapInterval,
                            min_tap_delay |-> DefaultMinTapDelay]]

RegNoOp(kind) ==
    [op |-> kind, h |-> "", gap |-> 0, path |-> "none", classified |-> FALSE, armed |-> 0]

RegOff ==
    /\ handlers = [h \in {} |-> 0]
    /\ mt_states = [k \in {} |-> 0]
    /\ run_by = [k \in {} |-> 0]
    /\ regop = RegNoOp("none")

\* last_dt_combo = None
NoCombo == ""

NoBinding == [key |-> "", out |-> ""]

DtNoOp(kind) ==
    [op |-> kind, b |-> NoBinding, ret |-> NoCombo, gap |-> 0,
     pre |-> [tapCount |-> 0, last_dt_combo |-> NoCombo, starter |-> NoBinding],
     starter |-> NoBinding]

\* the globals as the module sets them when it is loaded
DtOff ==
    /\ tapTime1 = 0
    /\ tapCount = 0
    /\ last_dt_combo = NoCombo
    /\ dtnow = 0
    /\ dtop = DtNoOp("none")

CmdOff == [phase |-> "off", command |-> [k |-> "None"], output_ok |-> FALSE, sent |-> <<>>]

NoOutcome == [kind |-> "none"]

TermOff == [phase |-> "off", command_list |-> "list_of_str", desktop_env |-> "None",
            installed |-> {}, failing |-> {}, fault |-> "SubprocessError",
            result |-> NoOutcome]

EnvOff == [phase |-> "off"]

\* _enter_is_F2 = True, no handler called yet
IefOff == [flag |-> TRUE, calls |-> <<>>]

NoKbOp == [op |-> "none"]

\* KBTYPE = None, kbtype_cache_dct = {}, cnfg.override_kbtype = None
KbOff == [KBTYPE |-> "None", cache |-> <<>>, override |-> "None", op |-> NoKbOp]

\* no tap delivered yet
RptOff == [since |-> 0, repeat |-> TRUE]

LateOff == env = EnvOff /\ ief = IefOff /\ kb = KbOff /\ rpt = RptOff

MoreOff == CfgOff /\ RegOff /\ DtOff /\ cmd = CmdOff /\ term = TermOff /\ LateOff

NotTap == <<rx, mpvars, morevars>>

NotRx == <<tapvars, mpvars, morevars>>

NotMp == <<tapvars, rx, morevars>>

\* ------------------------------------------------------------- helpers
\* the whole dict is emptied
Remove_all(f, k) == [x \in {} |-> f[x]]

Remove(f, k) == [x \in (DOMAIN f) \ {k} |-> f[x]]

Put(f, k, v) == [x \in (DOMAIN f) \cup {k} |-> IF x = k THEN v ELSE f[x]]

tap_interval(key) == TapInterval

min_tap_delay(key) == MinTapDelay

\* the dict literal stored on the first tap of a run
new_state(ctx, key) ==
    [count |-> 0, last_tap_time |-> 0, finalize_handle |-> None,
     captured_ctx |-> ctx, actions |-> Actions(key)]

\* key repeat protection with the comparison dropped: no tap is ever too soon
TooSoon_never(st, since, key) == st.count > 0 /\ since < 0

\* key repeat protection
TooSoon(st, since, key) == st.count > 0 /\ since < min_tap_delay(key)

\* stale run detection with > in place of >=
TooLate_strict(st, since, key) == st.count > 0 /\ since > tap_interval(key)

\* stale run detection
TooLate(st, since, key) == st.count > 0 /\ since >= tap_interval(key)

\* the decision to schedule a finalization after the increment
Schedules(st) == (1 \in st.actions) \/ st.count > 1

\* more than five taps: return before scheduling
BeyondMax(st) == st.count > 5

\* handle.cancel()
Cancel(tm, h) == IF h = None THEN tm ELSE Remove(tm, h)

\* loop.call_later(delay, callback): the new handle is the least unused id
NewHandle(tm) ==
    CHOOSE h \in 1..(Cardinality(DOMAIN tm) + 1) :
        h \notin DOMAIN tm /\ \A g \in 1..(h - 1) : g \in DOMAIN tm

call_later(tm, delay, key, ctx) ==
    Put(tm, NewHandle(tm), [key |-> key, when |-> now + delay, ctx |-> ctx])

\* execute_action_for_tap_count without the try/except around the action
execute_action_uncaught(tap_count, acts, raises) ==
    IF tap_count \in acts
    THEN [dispatched |-> TRUE, raised |-> raises, escaped |-> raises]
    ELSE [dispatched |-> FALSE, raised |-> FALSE, escaped |-> FALSE]

\* execute_action_for_tap_count: looks the count up, runs the action inside
\* try/except.  raises = the action throws.  escaped = the exception leaves
\* the function.
execute_action_for_tap_count(tap_count, acts, raises) ==
    IF tap_count \in acts
    THEN [dispatched |-> TRUE, raised |-> raises, escaped |-> FALSE]
    ELSE [dispatched |-> FALSE, raised |-> FALSE, escaped |-> FALSE]

\* finalize_taps without the del: the state stays in the dict
finalize_taps_keep(ts, key, captured_ctx, raises, via) ==
    IF key \in DOMAIN ts
    THEN LET state == ts[key]
             x == execute_action_for_tap_count(state.count, state.actions, raises)
         IN [ts |-> ts,
             escaped |-> x.escaped,
             fin |-> <<[key |-> key, count |-> state.count,
                        ctx |-> captured_ctx, run_ctx |-> state.captured_ctx,
                        dispatched |-> x.dispatched, raised |-> x.raised,
                        idle |-> key \notin DOMAIN ts, via |-> via,
                        early |-> now < chain[key].last + tap_interval(key),
                        chain_n |-> chain[key].n,
                        chain_done |-> chain[key].done]>>]
    ELSE [ts |-> ts, escaped |-> FALSE, fin |-> <<>>]

\* finalize_taps(action_key, captured_ctx): result is the new dict and the
\* finalization record (<<>> when the key has no state).
finalize_taps(ts, key, captured_ctx, raises, via) ==
    IF key \in DOMAIN ts
    THEN LET state == ts[key]
             ts1 == Remove(ts, key)
             x == execute_action_for_tap_count(state.count, state.actions, raises)
         IN [ts |-> ts1,
             escaped |-> x.escaped,
             fin |-> <<[key |-> key, count |-> state.count,
                        ctx |-> captured_ctx, run_ctx |-> state.captured_ctx,
                        dispatched |-> x.dispatched, raised |-> x.raised,
                        idle |-> key \notin DOMAIN ts1, via |-> via,
                        early |-> now < chain[key].last + tap_interval(key),
                        chain_n |-> chain[key].n,
                        chain_done |-> chain[key].done]>>]
    ELSE [ts |-> ts, escaped |-> FALSE, fin |-> <<>>]

\* the run as the tap timing alone defines it (observer, not program state)
ChainTap(c, key) ==
    IF c.n = 0 THEN [n |-> 1, last |-> now, done |-> 0]
    ELSE IF now - c.last < min_tap_delay(key) THEN c
    ELSE IF now - c.last >= tap_interval(key) THEN [n |-> 1, last |-> now, done |-> 0]
    ELSE [c EXCEPT !.n = c.n + 1, !.last = now]

ChainFin(c, f) == IF f = <<>> THEN c ELSE [c EXCEPT !.done = IF c.done < 2 THEN c.done + 1 ELSE 2]

\* ---------------------------------------------------------------- Init
Init ==
    /\ tap_states = [k \in {} |-> 0]
    /\ timers = [h \in {} |-> 0]
    /\ now = 0
    /\ op = [kind |-> "init", key |-> "kAll", ctx |-> "ctxA", path |-> "none", escaped |-> FALSE]
    /\ fin = <<>>
    /\ ntaps = [k \in Keys |-> 0]
    /\ chain = [k \in Keys |-> [n |-> 0, last |-> 0, done |-> 0]]
    /\ rx = RxOff
    /\ MpOff
    /\ MoreOff

\* the tap classifier before any tap, for the specifications that do not use it
TapOff ==
    /\ tap_states = [k \in {} |-> 0]
    /\ timers = [h \in {} |-> 0]
    /\ now = 0
    /\ op = [kind |-> "init", key |-> "kAll", ctx |-> "ctxA", path |-> "none", escaped |-> FALSE]
    /\ fin = <<>>
    /\ ntaps = [k \in Keys |-> 0]
    /\ chain = [k \in Keys |-> [n |-> 0, last |-> 0, done |-> 0]]

OldOff == TapOff /\ rx = RxOff /\ MpOff

oldvars == <<tapvars, rx, mpvars>>

\* ------------------------------------------------------------- actions
\* _isMultiTap(ctx) when get_loop() returns None
TapNoLoop(key) ==
    /\ ntaps[key] < MaxTaps(key)
    /\ ntaps' = [ntaps EXCEPT ![key] = @ + 1]
    /\ op' = [kind |-> "noloop", key |-> key, ctx |-> "ctxA", path |-> "none", escaped |-> FALSE]
    /\ fin' = <<>>
    /\ UNCHANGED <<tap_states, timers, now, chain>>

\* _isMultiTap(ctx) with a running loop
Tap(key, ctx, raises) ==
    LET s0 == IF key \in DOMAIN tap_states THEN tap_states
              ELSE Put(tap_states, key, new_state(ctx, key))
        state0 == s0[key]
        since == now - state0.last_tap_time
    IN  /\ ntaps[key] < MaxTaps(key)
        \* an action can only throw where one is dispatched
        /\ raises => (TooLate(state0, since, key) /\ state0.count \in state0.actions)
        /\ ntaps' = [ntaps EXCEPT ![key] = @ + 1]
        /\ chain' = [chain EXCEPT ![key] =
                        ChainTap(ChainFin(@, IF TooLate(state0, since, key)
                                             THEN <<1>> ELSE <<>>), key)]
        /\ now' = now
        /\ IF TooSoon(state0, since, key)
           THEN /\ tap_states' = s0
                /\ timers' = timers
                /\ fin' = <<>>
                /\ op' = [kind |-> "tap", key |-> key, ctx |-> ctx, path |-> "too_soon", escaped |-> FALSE]
           ELSE LET stale == TooLate(state0, since, key)
                    f == IF stale
                         THEN finalize_taps(s0, key, state0.captured_ctx, raises, "stale")
                         ELSE [ts |-> s0, escaped |-> FALSE, fin |-> <<>>]
                IN IF f.escaped
                   THEN /\ tap_states' = f.ts
                        /\ timers' = timers
                        /\ fin' = f.fin
                        /\ op' = [kind |-> "tap", key |-> key, ctx |-> ctx, path |-> "stale", escaped |-> TRUE]
                   ELSE LET s1 == IF stale THEN Put(f.ts, key, new_state(ctx, key)) ELSE f.ts
                            state1 == s1[key]
                            tm1 == Cancel(timers, state1.finalize_handle)
                            state2 == [state1 EXCEPT !.finalize_handle = None,
                                                     !.count = @ + 1,
                                                     !.last_tap_time = now]
                            arm == ~BeyondMax(state2) /\ Schedules(state2)
                            tm2 == IF arm
                                   THEN call_later(tm1, tap_interval(key), key, state2.captured_ctx)
                                   ELSE tm1
                            state3 == IF arm
                                      THEN [state2 EXCEPT !.finalize_handle = NewHandle(tm1)]
                                      ELSE state2
                        IN /\ tap_states' = Put(s1, key, state3)
                           /\ timers' = tm2
                           /\ fin' = f.fin
                           /\ op' = [kind |-> "tap", key |-> key, ctx |-> ctx,
                                     path |-> IF stale THEN "stale" ELSE "counted",
                                     escaped |-> FALSE]

\* the loop runs a due finalize callback: lambda: finalize_taps(action_key, captured_ctx)
Fire(h, raises) ==
    /\ h \in DOMAIN timers
    /\ timers[h].when <= now
    /\ \A g \in DOMAIN timers : timers[h].when <= timers[g].when
    /\ raises => /\ timers[h].key \in DOMAIN tap_states
                 /\ tap_states[timers[h].key].count \in tap_states[timers[h].key].actions
    /\ LET cb == timers[h]
           f == finalize_taps(tap_states, cb.key, cb.ctx, raises, "timer")
       IN /\ tap_states' = f.ts
          /\ timers' = Remove(timers, h)
          /\ fin' = f.fin
          /\ op' = [kind |-> "fire", key |-> cb.key, ctx |-> cb.ctx, path |-> "none", escaped |-> f.escaped]
          /\ chain' = [chain EXCEPT ![cb.key] = ChainFin(@, f.fin)]
    /\ UNCHANGED <<now, ntaps>>

\* time passes
Tick ==
    /\ now < MaxTime
    /\ \A h \in DOMAIN timers : now < timers[h].when + MaxLate
    /\ now' = now + 1
    /\ op' = [kind |-> "tick", key |-> "kAll", ctx |-> "ctxA", path |-> "none", escaped |-> FALSE]
    /\ fin' = <<>>
    /\ UNCHANGED <<tap_states, timers, ntaps, chain>>

Next ==
    \/ \E key \in Keys : TapNoLoop(key) /\ UNCHANGED NotTap
    \/ \E key \in Keys, ctx \in Ctxs, raises \in BOOLEAN :
            Tap(key, ctx, raises) /\ UNCHANGED NotTap
    \/ \E h \in DOMAIN timers, raises \in BOOLEAN : Fire(h, raises) /\ UNCHANGED NotTap
    \/ Tick /\ UNCHANGED NotTap

Spec == Init /\ [][Next]_vars

\* ------------------------------------------------------------ claims
PendingFor(k) == {h \in DOMAIN timers : timers[h].key = k}

\* a step that is a tap event of key k handled with a running loop
TapStep(k) == op'.kind = "tap" /\ op'.key = k /\ ntaps'[k] = ntaps[k] + 1

\* C1: a run of k taps (k in 2..5), each at least MinTapDelay and less than
\* TapInterval after the previous accepted one, is finalized once, with
\* count k, and not before TapInterval has passed since its k-th tap; no
\* finalization with a lower count happens for it.
C1_RunOfKTapsFinalizesK ==
    (fin # <<>> /\ fin[1].chain_n \in 2..5)
        => /\ fin[1].count = fin[1].chain_n
           /\ ~fin[1].early
           /\ fin[1].chain_done = 0

\* C2: after a single accepted tap with no further tap, the run is finalized
\* and the binding Idle once TapInterval has elapsed (the loop runs a due
\* callback at most MaxLate late), whatever actions are bound.
C2_SingleTapFinalizedAfterInterval ==
    \A k \in DOMAIN tap_states :
        tap_states[k].count = 1
            => now <= tap_states[k].last_tap_time + TapInterval + MaxLate

\* C3: a tap on a run that already has five taps changes neither the
\* TapState nor the pending finalize timer, and a run of six or more taps
\* is finalized with count 5.
C3_SixthTapIsNoOp ==
    [][ /\ \A k \in Keys :
            ( /\ TapStep(k)
              /\ k \in DOMAIN tap_states
              /\ tap_states[k].count >= 5
              /\ now - tap_states[k].last_tap_time < TapInterval )
            => (tap_states' = tap_states /\ timers' = timers)
        /\ (fin' # <<>> /\ fin'[1].chain_n >= 6)
            => (fin'[1].count = 5 /\ fin'[1].dispatched = (5 \in Actions(fin'[1].key)))
      ]_vars

\* C4: the stored count of every TapState is between 0 and 5.
C4_CountAtMostFive ==
    \A k \in DOMAIN tap_states : tap_states[k].count \in 0..5

\* C5: a tap arriving less than MinTapDelay after the last accepted tap of an
\* existing TapState changes no TapState and no pending timer, and
\* dispatches nothing.
C5_TooSoonTapChangesNothing ==
    [][ \A k \in Keys :
            ( /\ TapStep(k)
              /\ k \in DOMAIN tap_states
              /\ now - tap_states[k].last_tap_time < MinTapDelay )
            => (tap_states' = tap_states /\ timers' = timers /\ fin' = <<>>)
      ]_vars

\* a too-soon tap was handled while the run's finalize callback was pending
C5_Witness ==
    /\ op.kind = "tap" /\ op.path = "too_soon"
    /\ op.key \in DOMAIN tap_states
    /\ tap_states[op.key].last_tap_time = now
    /\ tap_states[op.key].finalize_handle \in DOMAIN timers

\* C6: a tap arriving TapInterval or more after the last accepted tap of an
\* existing TapState finalizes the old run with the old run's count and
\* captured context (its TapState is removed, its action dispatched if one is
\* bound to that count), and the new run has count 1 and the new tap's
\* context.
C6_StaleRunFinalizedThenNewRun ==
    [][ \A k \in Keys :
            ( /\ TapStep(k)
              /\ k \in DOMAIN tap_states
              /\ now - tap_states[k].last_tap_time >= TapInterval )
            => /\ Len(fin') = 1
               /\ fin'[1].key = k
               /\ fin'[1].via = "stale"
               /\ fin'[1].count = tap_states[k].count
               /\ fin'[1].ctx = tap_states[k].captured_ctx
               /\ fin'[1].dispatched = (tap_states[k].count \in Actions(k))
               /\ fin'[1].idle
               /\ k \in DOMAIN tap_states'
               /\ tap_states'[k].count = 1
               /\ tap_states'[k].captured_ctx = op'.ctx
               /\ tap_states'[k].last_tap_time = now
      ]_vars

\* a stale run of two or more taps was superseded by a tap with another context
C6_Witness ==
    /\ op.kind = "tap" /\ op.path = "stale"
    /\ fin # <<>> /\ fin[1].via = "stale" /\ fin[1].dispatched
    /\ fin[1].count >= 2
    /\ fin[1].ctx # op.ctx
    /\ op.key \in DOMAIN tap_states

\* C7: every binding has at most one pending finalize callback.
C7_AtMostOnePendingFinalize ==
    \A k \in Keys : Cardinality(PendingFor(k)) <= 1

\* C8: every binding that has a TapState has its finalize callback pending.
C8_ActiveHasTimerArmed ==
    \A k \in DOMAIN tap_states :
        /\ tap_states[k].finalize_handle # None
        /\ tap_states[k].finalize_handle \in PendingFor(k)

\* C9: the context handed to the dispatcher is the context captured at the
\* first tap of the run that is being finalized.
C9_DispatchUsesRunContext ==
    (fin # <<>> /\ fin[1].dispatched) => fin[1].ctx = fin[1].run_ctx

\* C10: when the action dispatched at finalize raises, the exception leaves
\* neither the finalize callback nor the tap handler, the finalized TapState
\* has been removed, and the TapState and pending timers of every other
\* binding are unchanged.
C10_RaisingActionIsContained ==
    [][ (fin' # <<>> /\ fin'[1].raised)
            => /\ ~op'.escaped
               /\ fin'[1].idle
               /\ (op'.kind = "fire" => fin'[1].key \notin DOMAIN tap_states')
               /\ \A j \in Keys \ {fin'[1].key} :
                    /\ (j \in DOMAIN tap_states) = (j \in DOMAIN tap_states')
                    /\ j \in DOMAIN tap_states => tap_states'[j] = tap_states[j]
                    /\ \A h \in DOMAIN timers :
                         timers[h].key = j
                            => (h \in DOMAIN timers' /\ timers'[h] = timers[h])
                    /\ \A h \in DOMAIN timers' :
                         timers'[h].key = j => h \in DOMAIN timers
      ]_vars

\* an action raised at finalize while the other binding had a run in progress
C10_Witness ==
    /\ fin # <<>> /\ fin[1].raised
    /\ \E j \in Keys \ {fin[1].key} :
           j \in DOMAIN tap_states /\ PendingFor(j) # {}

\* =====================================================================
\* Regular expressions: toRgxStr, negRgx and re.search
\* =====================================================================
\* A text is a sequence of one-character strings.  A pattern is a sequence
\* of tokens: a character, "^", "$", "|", or one of the two group tokens
\* that negRgx writes.
LowerMap ==
    [c \in {"A", "B", "C", "E", "N", "P", "R", "T"} |->
        CASE c = "A" -> "a" [] c = "B" -> "b" [] c = "C" -> "c" [] c = "E" -> "e"
          [] c = "N" -> "n" [] c = "P" -> "p" [] c = "R" -> "r" [] c = "T" -> "t"]

\* str.casefold() / re.I on one character
Lower(c) == IF c \in DOMAIN LowerMap THEN LowerMap[c] ELSE c

LowerSeq(t) == [i \in 1..Len(t) |-> Lower(t[i])]

\* s.replace('^','').replace('$','')
StripAnchors(p) == SelectSeq(p, LAMBDA c : c # "^" /\ c # "$")

RECURSIVE JoinAnchored(_)
\* "|".join('^' + x + '$' for x in labels)
JoinAnchored(ls) ==
    IF ls = <<>> THEN <<>>
    ELSE LET one == <<"^">> \o ls[1] \o <<"$">>
         IN IF Len(ls) = 1 THEN one ELSE one \o <<"|">> \o JoinAnchored(Tail(ls))

toRgxStr(lst_of_str) ==
    JoinAnchored([i \in 1..Len(lst_of_str) |-> LowerSeq(StripAnchors(lst_of_str[i]))])

RECURSIVE ReplaceAnchors(_)
\* s.replace('^','^(?:(?!^').replace('$','$).)*$')
ReplaceAnchors(p) ==
    IF p = <<>> THEN <<>>
    ELSE (CASE Head(p) = "^" -> <<"^", "(?:(?!", "^">>
            [] Head(p) = "$" -> <<"$", ").)*", "$">>
            [] OTHER -> <<Head(p)>>) \o ReplaceAnchors(Tail(p))

negRgx(rgx_str) ==
    LET rgx_str_strip == StripAnchors(rgx_str)
        rgx_str_add == <<"^">> \o rgx_str_strip \o <<"$">>
    IN ReplaceAnchors(rgx_str_add)

RECURSIVE SplitAlt(_, _)
\* the alternatives of a pattern: split at the top-level "|"
SplitAlt(p, cur) ==
    IF p = <<>> THEN <<cur>>
    ELSE IF Head(p) = "|" THEN <<cur>> \o SplitAlt(Tail(p), <<>>)
    ELSE SplitAlt(Tail(p), Append(cur, Head(p)))

RECURSIVE MatchSeqAt(_, _, _, _)
\* one alternative (anchors and characters) matched against text t from
\* offset i (0-based); ci = re.I
MatchSeqAt(alt, t, i, ci) ==
    IF alt = <<>> THEN TRUE
    ELSE IF Head(alt) = "^" THEN i = 0 /\ MatchSeqAt(Tail(alt), t, i, ci)
    ELSE IF Head(alt) = "$" THEN i = Len(t) /\ MatchSeqAt(Tail(alt), t, i, ci)
    ELSE /\ i < Len(t)
         /\ IF ci THEN Lower(t[i + 1]) = Lower(Head(alt)) ELSE t[i + 1] = Head(alt)
         /\ MatchSeqAt(Tail(alt), t, i + 1, ci)

MatchAltAt(p, t, i, ci) ==
    LET alts == SplitAlt(p, <<>>)
    IN \E k \in 1..Len(alts) : MatchSeqAt(alts[k], t, i, ci)

\* the pattern has the shape ^(?:(?! body ).)*$
IsNegForm(p) ==
    /\ Len(p) >= 4
    /\ p[1] = "^" /\ p[2] = "(?:(?!"
    /\ p[Len(p) - 1] = ").)*" /\ p[Len(p)] = "$"

NegBody(p) == SubSeq(p, 3, Len(p) - 2)

\* re.search(pattern, text) is not None
Search(p, t, ci) ==
    IF IsNegForm(p)
    THEN \A i \in 0..(Len(t) - 1) : ~MatchAltAt(NegBody(p), t, i, ci)
    ELSE \E i \in 0..Len(t) : MatchAltAt(p, t, i, ci)

\* ------------------------------------------------- inputs of the search
Labels == {<<"a">>, <<"B">>, <<"a", "B">>, <<"B", "a">>, <<"a", "a">>, <<"B", "B">>}

TextChars == {"a", "b", "B"}

RECURSIVE SeqsUpTo(_, _)
SeqsUpTo(S, n) ==
    IF n = 0 THEN {<<>>}
    ELSE LET shorter == SeqsUpTo(S, n - 1)
         IN shorter \cup {Append(q, x) : q \in shorter, x \in S}

LabelLists == SeqsUpTo(Labels, MaxLabels) \ {<<>>}

Texts == SeqsUpTo(TextChars, MaxTextLen)

RxInit ==
    \E L \in LabelLists, T \in Texts :
        rx = [phase |-> "input", labels |-> L, text |-> T, pat |-> <<>>, found |-> FALSE]

\* pat = negRgx(toRgxStr(labels))
RxNegate ==
    /\ rx.phase = "input"
    /\ rx' = [rx EXCEPT !.phase = "built", !.pat = negRgx(toRgxStr(rx.labels))]

\* re.search(pat, text, re.I)
RxSearch ==
    /\ rx.phase = "built"
    /\ rx' = [rx EXCEPT !.phase = "searched", !.found = Search(rx.pat, rx.text, TRUE)]

InitRx ==
    /\ tap_states = [k \in {} |-> 0]
    /\ timers = [h \in {} |-> 0]
    /\ now = 0
    /\ op = [kind |-> "init", key |-> "kAll", ctx |-> "ctxA", path |-> "none", escaped |-> FALSE]
    /\ fin = <<>>
    /\ ntaps = [k \in Keys |-> 0]
    /\ chain = [k \in Keys |-> [n |-> 0, last |-> 0, done |-> 0]]
    /\ RxInit
    /\ MpOff
    /\ MoreOff

NextRx ==
    \/ RxNegate /\ UNCHANGED NotRx
    \/ RxSearch /\ UNCHANGED NotRx

SpecRx == InitRx /\ [][NextRx]_vars

\* C16: the negated pattern of a list of labels is found in a text exactly
\* when the text equals none of the labels, ignoring case.
C16_NegatedMatchesIffEqualsNoLabel ==
    rx.phase = "searched"
        => (rx.found <=>
              \A k \in 1..Len(rx.labels) : LowerSeq(rx.text) # LowerSeq(rx.labels[k]))

\* =====================================================================
\* matchProps: construction of a matcher and its evaluation
\* =====================================================================
MAX_MATCHPROPS_ITERATIONS == 1000

\* calls still to be made, at Init, before the counter is at the threshold
WarmGap == 2

\* A keyword dict is a function from parameter names to values; a name
\* that is absent is a parameter left at None.
Has(a, k) == k \in DOMAIN a

Props == {"clas", "name", "devn"}

Neg(p) == CASE p = "clas" -> "not_clas" [] p = "name" -> "not_name" [] p = "devn" -> "not_devn"

dct_param_strs ==
    {"clas", "name", "devn", "not_clas", "not_name", "not_devn",
     "numlk", "capslk", "cse", "lst", "not_lst", "dbg"}

allowed_params == dct_param_strs

lst_dct_params ==
    {"clas", "name", "devn", "not_clas", "not_name", "not_devn", "numlk", "capslk", "cse"}

string_params == {"clas", "name", "devn", "not_clas", "not_name", "not_devn", "dbg"}

bool_params == {"numlk", "capslk", "cse"}

\* Values.  A string parameter holds a pattern, or NotStr (a value that is
\* not a str, such as 5).  A bool parameter holds "True", "False" or "Junk"
\* (a value outside (True, False, None), such as 'yes').  lst/not_lst hold
\* [islist, items], each item being [isdict, d].
NotStr == <<"<int>">>

\* a context string that is None
NoneText == <<"<None>">>

\* truth value of a string parameter: None and '' are false
TruthyStr(a, k) == Has(a, k) /\ a[k] # <<>>

\* truth value of lst/not_lst: None and [] are false
TruthyLst(a, k) == Has(a, k) /\ (~a[k].islist \/ a[k].items # <<>>)

\* the first group of guard clauses; "" when none raises
GuardClauses(a) ==
    IF DOMAIN a \cap allowed_params = {} THEN "ValueError"
    ELSE IF \E k \in DOMAIN a \cap bool_params : a[k] \notin {"True", "False"} THEN "TypeError"
    ELSE IF \E k \in DOMAIN a \cap string_params : a[k] = NotStr THEN "TypeError"
    ELSE IF \/ \E p \in Props : TruthyStr(a, p) /\ TruthyStr(a, Neg(p))
            \/ TruthyLst(a, "lst") /\ TruthyLst(a, "not_lst")
         THEN "ValueError"
    ELSE ""

\* the guard clauses of list mode; "" when none raises
ListGuardClauses(a, _lst) ==
    IF DOMAIN a \cap lst_dct_params # {} THEN "TypeError"
    ELSE IF ~_lst.islist \/ \E i \in 1..Len(_lst.items) : ~_lst.items[i].isdict
         THEN "TypeError"
    ELSE IF \E i \in 1..Len(_lst.items) : DOMAIN _lst.items[i].d \ dct_param_strs # {}
         THEN "ValueError"
    ELSE ""

\* _clas, _name, _devn: the positive pattern, else the negative one
Consolidated(a, p) == IF Has(a, p) THEN a[p] ELSE a[Neg(p)]

\* re.compile(_clas, ...) raises on a pattern that is not a str
CompileError(a) ==
    IF \E p \in Props : (Has(a, p) \/ Has(a, Neg(p))) /\ Consolidated(a, p) = NotStr
    THEN "TypeError" ELSE ""

\* One call matchProps(**a) with the globals G = [total, reached, focus];
\* late is time_elapsed > 6.  The result names what the call returned
\* (kind "false" is lambda _: False, "lst" is _matchProps_Lst, "fld" is
\* _matchProps, "raised" is no matcher) and the globals it left.
matchProps(a, G, late) ==
    LET at_max == G.total >= MAX_MATCHPROPS_ITERATIONS
        total1 == IF at_max THEN G.total ELSE G.total + 1
        reached1 == G.reached \/ at_max
        bypass_guard_clauses == IF at_max THEN TRUE ELSE late
        guarded == ~reached1 \/ ~bypass_guard_clauses
        e1 == IF guarded THEN GuardClauses(a) ELSE ""
        in_list_mode == Has(a, "lst") \/ Has(a, "not_lst")
        _lst == IF Has(a, "lst") THEN a.lst ELSE a.not_lst
        e2 == IF guarded THEN ListGuardClauses(a, _lst) ELSE ""
        e3 == CompileError(a)
        out(err, kind) == [err |-> err, kind |-> kind, total |-> total1, reached |-> reached1]
    IN IF DOMAIN a \ dct_param_strs # {}
       THEN [err |-> "TypeError", kind |-> "raised", total |-> G.total, reached |-> G.reached]
       ELSE IF G.reached /\ ~G.focus
       THEN [err |-> "", kind |-> "false", total |-> G.total, reached |-> G.reached]
       ELSE IF e1 # "" THEN out(e1, "raised")
       ELSE IF in_list_mode THEN (IF e2 # "" THEN out(e2, "raised") ELSE out("", "lst"))
       ELSE IF e3 # "" THEN out(e3, "raised")
       ELSE out("", "fld")

\* ------------------------------------------------------ field matching
CtxString(ctx, p) ==
    CASE p = "clas" -> ctx.wm_class [] p = "name" -> ctx.wm_name [] p = "devn" -> ctx.device_name

\* nt_err + 'wm_class', nt_err + 'wm_name', nt_err + 'device_name'
nt_err(p) ==
    <<"E", "R", "R", ":", " ", "m", "a", "t", "c", "h", "P", "r", "o", "p", "s", ":", " ",
      "N", "o", "n", "e", "T", "y", "p", "e", " ", "i", "n", " ", "c", "t", "x", ".">>
    \o (CASE p = "clas" -> <<"w", "m", "_", "c", "l", "a", "s", "s">>
          [] p = "name" -> <<"w", "m", "_", "n", "a", "m", "e">>
          [] p = "devn" -> <<"d", "e", "v", "i", "c", "e", "_", "n", "a", "m", "e">>)

\* ctx.wm_class or nt_err + 'wm_class'
SearchedText(ctx, p) ==
    IF CtxString(ctx, p) \in {NoneText, <<>>} THEN nt_err(p) ELSE CtxString(ctx, p)

\* 0 if cse else re.I
IgnoreCase(a) == ~(Has(a, "cse") /\ a.cse # "False")

\* not clas_match if not_clas is not None else clas_match
PropCond(a, ctx, p) ==
    LET found == Search(Consolidated(a, p), SearchedText(ctx, p), IgnoreCase(a))
    IN IF Has(a, Neg(p)) THEN ~found ELSE found

\* numlk is ctx.numlock_on
LedCond(v, led_on) == (v = "True" /\ led_on) \/ (v = "False" /\ ~led_on)

\* if not cnfg.screen_has_focus: return False  (in _matchProps)
FldNoFocus(focus) == ~focus

\* _matchProps_Lst without its focus check
LstNoFocus_never(focus) == FALSE

\* if not cnfg.screen_has_focus: return False  (in _matchProps_Lst)
LstNoFocus(focus) == ~focus

\* the closure _matchProps(ctx): all(cond_list)
_matchProps(a, ctx, focus) ==
    IF FldNoFocus(focus) THEN FALSE
    ELSE /\ \A p \in Props : (Has(a, p) \/ Has(a, Neg(p))) => PropCond(a, ctx, p)
         /\ Has(a, "numlk") => LedCond(a.numlk, ctx.numlock_on)
         /\ Has(a, "capslk") => LedCond(a.capslk, ctx.capslock_on)

\* any(...) for lst, not any(...) for not_lst
ListResult(any_true, negated) == IF negated THEN ~any_true ELSE any_true

RECURSIVE CallMatcher(_, _, _, _), AnyChild(_, _, _, _, _)
\* m(ctx) for the matcher m = [kind, a]; the result carries the value, the
\* exception that escaped ("" for none) and the globals left behind
CallMatcher(m, ctx, G, late) ==
    LET ret(v, e) == [val |-> v, err |-> e, total |-> G.total, reached |-> G.reached]
    IN CASE m.kind = "false" -> ret(FALSE, "")
         [] m.kind = "fld" -> ret(_matchProps(m.a, ctx, G.focus), "")
         [] m.kind = "lst" ->
                IF LstNoFocus(G.focus) THEN ret(FALSE, "")
                ELSE LET negated == Has(m.a, "not_lst")
                         l == IF negated THEN m.a.not_lst ELSE m.a.lst
                     IN IF ~l.islist THEN ret(FALSE, "TypeError")
                        ELSE LET r == AnyChild(l.items, 1, ctx, G, late)
                             IN IF r.err # "" THEN r
                                ELSE [r EXCEPT !.val = ListResult(r.val, negated)]

\* any(matchProps(**dct)(ctx) for dct in items[i..]): each child is
\* constructed and called in turn, stopping at the first true result
AnyChild(items, i, ctx, G, late) ==
    IF i > Len(items)
    THEN [val |-> FALSE, err |-> "", total |-> G.total, reached |-> G.reached]
    ELSE IF ~items[i].isdict
    THEN [val |-> FALSE, err |-> "TypeError", total |-> G.total, reached |-> G.reached]
    ELSE LET c == matchProps(items[i].d, G, late)
             G1 == [G EXCEPT !.total = c.total, !.reached = c.reached]
         IN IF c.err # ""
            THEN [val |-> FALSE, err |-> c.err, total |-> c.total, reached |-> c.reached]
            ELSE LET r == CallMatcher([kind |-> c.kind, a |-> items[i].d], ctx, G1, late)
                     G2 == [G EXCEPT !.total = r.total, !.reached = r.reached]
                 IN IF r.err # "" \/ r.val THEN r
                    ELSE AnyChild(items, i + 1, ctx, G2, late)

\* ------------------------------------------------------------- inputs
PA == <<"a">>

PB == <<"b">>

\* the pattern ^$
PEmptyLine == <<"^", "$">>

\* keyword dicts of field mode that every guard clause accepts
GoodFields ==
    {[clas |-> PA], [clas |-> PEmptyLine], [not_clas |-> PA], [name |-> PB],
     [not_devn |-> PA], [numlk |-> "True"], [clas |-> PA, capslk |-> "False"],
     [clas |-> PA, cse |-> "True"], [clas |-> PA, name |-> PB]}

\* keyword dicts that the docstring of matchProps rules out
BadFields ==
    {[clas |-> PA, not_clas |-> PB], [clas |-> <<>>, not_clas |-> PA],
     [numlk |-> "Junk"], [clas |-> NotStr], [cse |-> "True"], [dbg |-> PA], <<>>}

Dct(d) == [isdict |-> TRUE, d |-> d]

Lst(items) == [islist |-> TRUE, items |-> items]

GoodKids == {Dct([clas |-> PA]), Dct([not_clas |-> PA]), Dct([name |-> PB])}

BadKids ==
    {Dct([clas |-> PA, not_clas |-> PB]), Dct([clas |-> NotStr]), Dct(<<>>),
     Dct([clas |-> PA, bogus |-> PA]), [isdict |-> FALSE, d |-> <<>>]}

NestedKids ==
    {Dct([not_lst |-> Lst(<<Dct([clas |-> PA])>>)]),
     Dct([lst |-> Lst(<<Dct([clas |-> PA]), Dct([name |-> PB])>>)])}

Lists ==
    {Lst(<<>>), [islist |-> FALSE, items |-> <<>>]}
    \cup {Lst(<<j>>) : j \in GoodKids \cup BadKids \cup NestedKids}
    \cup {Lst(<<j, k>>) : j, k \in GoodKids}
    \cup {Lst(<<Dct([name |-> PB]), k>>) : k \in BadKids}

OneGoodList == Lst(<<Dct([clas |-> PA])>>)

\* list mode used together with another parameter
MixedLists ==
    {[lst |-> OneGoodList, clas |-> PA], [not_lst |-> OneGoodList, numlk |-> "True"],
     [lst |-> OneGoodList, cse |-> "True"], [lst |-> OneGoodList, not_lst |-> OneGoodList]}

ArgPool ==
    GoodFields \cup BadFields \cup MixedLists
    \cup {[lst |-> l] : l \in Lists} \cup {[not_lst |-> l] : l \in Lists}

CtxPool ==
    [wm_class : {NoneText, <<>>, <<"A">>, <<"b">>},
     wm_name : {<<"b">>, <<>>},
     device_name : {<<"a">>},
     numlock_on : BOOLEAN, capslock_on : BOOLEAN]

\* ------------------------------------------------------------ actions
Globals ==
    [total |-> total_matchProps_iterations,
     reached |-> MAX_MATCHPROPS_ITERATIONS_REACHED,
     focus |-> screen_has_focus]

\* m = matchProps(**a)
Construct(a, late) ==
    LET c == matchProps(a, Globals, late)
    IN /\ total_matchProps_iterations' = c.total
       /\ MAX_MATCHPROPS_ITERATIONS_REACHED' = c.reached
       /\ held' = [kind |-> c.kind, a |-> a]
       /\ mres' = [op |-> "construct", raised |-> c.err, val |-> FALSE, ctx |-> NoCtx]
       /\ UNCHANGED screen_has_focus

\* m(ctx) for the matcher held
Evaluate(ctx, late) ==
    /\ held.kind \in {"false", "lst", "fld"}
    /\ LET r == CallMatcher(held, ctx, Globals, late)
       IN /\ total_matchProps_iterations' = r.total
          /\ MAX_MATCHPROPS_ITERATIONS_REACHED' = r.reached
          /\ mres' = [op |-> "eval", raised |-> r.err, val |-> r.val, ctx |-> ctx]
    /\ UNCHANGED <<screen_has_focus, held>>

\* the screen gains or loses focus
SetFocus ==
    /\ screen_has_focus' = ~screen_has_focus
    /\ mres' = [op |-> "focus", raised |-> "", val |-> FALSE, ctx |-> NoCtx]
    /\ UNCHANGED <<total_matchProps_iterations, MAX_MATCHPROPS_ITERATIONS_REACHED, held>>

InitMp ==
    /\ tap_states = [k \in {} |-> 0]
    /\ timers = [h \in {} |-> 0]
    /\ now = 0
    /\ op = [kind |-> "init", key |-> "kAll", ctx |-> "ctxA", path |-> "none", escaped |-> FALSE]
    /\ fin = <<>>
    /\ ntaps = [k \in Keys |-> 0]
    /\ chain = [k \in Keys |-> [n |-> 0, last |-> 0, done |-> 0]]
    /\ rx = RxOff
    /\ total_matchProps_iterations = MAX_MATCHPROPS_ITERATIONS - WarmGap
    /\ MAX_MATCHPROPS_ITERATIONS_REACHED = FALSE
    /\ screen_has_focus = TRUE
    /\ held = [kind |-> "none", a |-> <<>>]
    /\ mres = [op |-> "none", raised |-> "", val |-> FALSE, ctx |-> NoCtx]
    /\ MoreOff

NextMp ==
    \/ \E a \in ArgPool, late \in BOOLEAN : Construct(a, late) /\ UNCHANGED NotMp
    \/ \E ctx \in CtxPool, late \in BOOLEAN : Evaluate(ctx, late) /\ UNCHANGED NotMp
    \/ SetFocus /\ UNCHANGED NotMp

SpecMp == InitMp /\ [][NextMp]_vars


\* ------------------------------------------ properties of matchProps
\* the globals of a system whose counter never reaches the threshold
ColdGlobals(focus) == [total |-> 0, reached |-> FALSE, focus |-> focus]

\* matchProps(**a)(ctx) on the unabbreviated path
RefCall(a, ctx, focus) ==
    LET c == matchProps(a, ColdGlobals(focus), FALSE)
    IN IF c.err # "" THEN [val |-> FALSE, err |-> c.err]
       ELSE LET r == CallMatcher([kind |-> c.kind, a |-> a], ctx, ColdGlobals(focus), FALSE)
            IN [val |-> r.val, err |-> r.err]

RECURSIVE WellFormed(_)
\* every guard clause accepts a, and its children at every depth
WellFormed(a) ==
    /\ matchProps(a, ColdGlobals(TRUE), FALSE).err = ""
    /\ \A k \in DOMAIN a \cap {"lst", "not_lst"} :
           \A i \in 1..Len(a[k].items) : WellFormed(a[k].items[i].d)

\* the context string of a property, None read as the empty text
ContextText(ctx, p) == IF CtxString(ctx, p) = NoneText THEN <<>> ELSE CtxString(ctx, p)

\* C11: a matcher evaluated while the screen has no focus returns False
\* and raises nothing, whatever its kind and whenever it was built.
C11_NoFocusMatcherReturnsFalse ==
    (mres.op = "eval" /\ ~screen_has_focus) => (mres.val = FALSE /\ mres.raised = "")

\* a not_lst matcher built after the threshold, evaluated without focus
C11_Witness ==
    /\ mres.op = "eval" /\ ~screen_has_focus
    /\ MAX_MATCHPROPS_ITERATIONS_REACHED
    /\ held.kind = "lst" /\ Has(held.a, "not_lst")

\* C12: for a well-formed spec the value a matcher returns is the value
\* the unabbreviated path returns for the same spec, context and focus.
C12_ShortcutKeepsResult ==
    (mres.op = "eval" /\ WellFormed(held.a))
        => /\ mres.raised = ""
           /\ mres.val = RefCall(held.a, mres.ctx, screen_has_focus).val

\* a spec that is lst=[...] or not_lst=[...] alone, with well-formed children
IsListSpec(a) == DOMAIN a \in {{"lst"}, {"not_lst"}} /\ WellFormed(a)

\* some child of the list matches, as a matcher of its own
SomeChildMatches(items, ctx, focus) ==
    \E i \in 1..Len(items) : RefCall(items[i].d, ctx, focus).val

\* C13: lst=[A,B] returns (A matches or B matches) and not_lst=[A,B]
\* returns its negation, for every context and focus state.
C13_ListIsAnyOrNone ==
    (mres.op = "eval" /\ IsListSpec(held.a))
        => /\ mres.raised = ""
           /\ Has(held.a, "lst")
                  => (mres.val <=> SomeChildMatches(held.a.lst.items, mres.ctx, screen_has_focus))
           /\ Has(held.a, "not_lst")
                  => (mres.val <=> ~SomeChildMatches(held.a.not_lst.items, mres.ctx, screen_has_focus))

\* a well-formed spec of field mode
IsFieldSpec(a) == ~Has(a, "lst") /\ ~Has(a, "not_lst") /\ WellFormed(a)

\* C14: in field mode with focus the matcher returns true exactly when
\* every populated pattern is found (or, negated, not found) in its
\* context string and every set lock flag equals the flag of the context.
C14_FieldModeIsConjunction ==
    (mres.op = "eval" /\ screen_has_focus /\ IsFieldSpec(held.a))
        => (mres.val <=>
              /\ \A p \in Props :
                     /\ Has(held.a, p)
                            => Search(held.a[p], ContextText(mres.ctx, p), IgnoreCase(held.a))
                     /\ Has(held.a, Neg(p))
                            => ~Search(held.a[Neg(p)], ContextText(mres.ctx, p), IgnoreCase(held.a))
              /\ Has(held.a, "numlk") => ((held.a.numlk = "True") <=> mres.ctx.numlock_on)
              /\ Has(held.a, "capslk") => ((held.a.capslk = "True") <=> mres.ctx.capslock_on))

\* C15: a spec with one positive pattern and nothing else, evaluated with
\* focus, returns true exactly when the pattern is found in the context
\* string, an empty or None string being searched as the empty text.
C15_SinglePositiveFieldIsSearch ==
    \A p \in Props :
        (mres.op = "eval" /\ screen_has_focus /\ DOMAIN held.a = {p} /\ WellFormed(held.a))
            => (mres.val <=> Search(held.a[p], ContextText(mres.ctx, p), TRUE))

\* C17: a call that sets the positive and the negative pattern of one
\* property raises, whatever calls were made before it.
C17_PositiveWithNegativeRaises ==
    (mres.op = "construct" /\ \E p \in Props : Has(held.a, p) /\ Has(held.a, Neg(p)))
        => mres.raised # ""

\* a child dict that is malformed on its own account
ChildMalformed(d) ==
    \/ DOMAIN d = {}
    \/ \E p \in Props : Has(d, p) /\ Has(d, Neg(p))
    \/ \E k \in DOMAIN d \cap {"numlk", "capslk"} : d[k] \notin {"True", "False"}
    \/ \E k \in DOMAIN d \cap string_params : d[k] = NotStr

HasMalformedChild(a) ==
    \E k \in DOMAIN a \cap {"lst", "not_lst"} :
        /\ a[k].islist
        /\ \E i \in 1..Len(a[k].items) : a[k].items[i].isdict /\ ChildMalformed(a[k].items[i].d)

\* C18: a list with a malformed child is rejected by the call that
\* constructs it, and evaluating a constructed matcher never raises.
C18_MalformedRejectedAtConstruction ==
    /\ mres.op = "eval" => mres.raised = ""
    /\ (mres.op = "construct" /\ HasMalformedChild(held.a)) => mres.raised # ""

\* C19: a call that gives lst or not_lst together with a field predicate,
\* or a child dict with an unrecognised key, raises at construction.
C19_ListWithFieldOrUnknownKeyRaises ==
    (/\ mres.op = "construct"
     /\ \E k \in DOMAIN held.a \cap {"lst", "not_lst"} :
            \/ DOMAIN held.a \cap lst_dct_params # {}
            \/ /\ held.a[k].islist
               /\ \E i \in 1..Len(held.a[k].items) :
                      /\ held.a[k].items[i].isdict
                      /\ DOMAIN held.a[k].items[i].d \ dct_param_strs # {})
        => mres.raised # ""

\* C20: a call that populates no match predicate (no pattern, no lock
\* flag, no child list) fails at construction and returns no matcher.
C20_NoZeroConditionMatcher ==
    (/\ mres.op = "construct"
     /\ DOMAIN held.a \cap ((lst_dct_params \ {"cse"}) \cup {"lst", "not_lst"}) = {})
        => mres.raised # ""


\* =====================================================================
\* multitap_config: the two process-wide tunables
\* =====================================================================
TAP_INTERVAL_MIN == 60

TAP_INTERVAL_MAX == 600

MIN_TAP_DELAY_MIN == 20

MIN_TAP_DELAY_MAX == 200

Num(n) == [t |-> "num", v |-> n]

\* an argument that is neither None nor an int or float
NotNum == [t |-> "str", v |-> 0]

\* accepts every number
ValidInterval_any(x) == x.t = "num"

\* isinstance(tap_interval, (int, float)) and 0.15 <= tap_interval <= 1.5
ValidInterval(x) == x.t = "num" /\ TAP_INTERVAL_MIN <= x.v /\ x.v <= TAP_INTERVAL_MAX

\* isinstance(min_tap_delay, (int, float)) and 0.05 <= min_tap_delay <= 0.5
ValidDelay(x) == x.t = "num" /\ MIN_TAP_DELAY_MIN <= x.v /\ x.v <= MIN_TAP_DELAY_MAX

\* the two conditional stores
StoreArgs(cfg, ti, mtd) ==
    [tap_interval |-> IF ti.t # "none" /\ ValidInterval(ti) THEN ti.v ELSE cfg.tap_interval,
     min_tap_delay |-> IF mtd.t # "none" /\ ValidDelay(mtd) THEN mtd.v ELSE cfg.min_tap_delay]

\* no adjustment of min_tap_delay
AutoCorrect_off(cfg) == cfg

\* min_tap_delay set to half of tap_interval
AutoCorrect_half(cfg) ==
    IF cfg.min_tap_delay >= cfg.tap_interval
    THEN [cfg EXCEPT !.min_tap_delay = cfg.tap_interval \div 2]
    ELSE cfg

\* if min_tap_delay >= tap_interval: min_tap_delay = tap_interval * 0.25
AutoCorrect(cfg) ==
    IF cfg.min_tap_delay >= cfg.tap_interval
    THEN [cfg EXCEPT !.min_tap_delay = cfg.tap_interval \div 4]
    ELSE cfg

\* multitap_config(tap_interval=ti, min_tap_delay=mtd)
multitap_config(ti, mtd) ==
    LET stored == StoreArgs(_MULTITAP_CONFIG, ti, mtd)
    IN /\ _MULTITAP_CONFIG' = AutoCorrect(stored)
       /\ cfgop' = [op |-> "config", ti |-> ti, mtd |-> mtd,
                    prev |-> _MULTITAP_CONFIG, stored |-> stored]

\* arguments: omitted, not a number, below, at and inside the range, above
IntervalArgs == {NoneArg, NotNum} \cup {Num(n) : n \in {56, 60, 80, 100, 600, 604}}

DelayArgs == {NoneArg, NotNum} \cup {Num(n) : n \in {16, 20, 28, 100, 200, 204}}

InitCfg == OldOff /\ MoreOff

NotCfg == <<oldvars, regvars, dtvars, cmd, term, latevars>>

NextCfg ==
    \E ti \in IntervalArgs, mtd \in DelayArgs : multitap_config(ti, mtd) /\ UNCHANGED NotCfg

SpecCfg == InitCfg /\ [][NextCfg]_vars

\* C21: after every multitap_config call the stored min_tap_delay is
\* strictly less than the stored tap_interval.
C21_DelayBelowInterval ==
    _MULTITAP_CONFIG.min_tap_delay < _MULTITAP_CONFIG.tap_interval

\* a call after whose stores min_tap_delay was not below tap_interval
C21_Witness ==
    /\ cfgop.op = "config"
    /\ cfgop.stored.min_tap_delay >= cfgop.stored.tap_interval

\* C22: the stored tap_interval lies in [0.15, 1.5] and the stored
\* min_tap_delay in [0.05, 0.5], also after an auto-correction.
C22_TunablesInRange ==
    /\ TAP_INTERVAL_MIN <= _MULTITAP_CONFIG.tap_interval
    /\ _MULTITAP_CONFIG.tap_interval <= TAP_INTERVAL_MAX
    /\ MIN_TAP_DELAY_MIN <= _MULTITAP_CONFIG.min_tap_delay
    /\ _MULTITAP_CONFIG.min_tap_delay <= MIN_TAP_DELAY_MAX

\* the argument was supplied and is outside the range of its tunable
RejectedInterval(x) ==
    x.t = "str" \/ (x.t = "num" /\ (x.v < TAP_INTERVAL_MIN \/ x.v > TAP_INTERVAL_MAX))

RejectedDelay(x) ==
    x.t = "str" \/ (x.t = "num" /\ (x.v < MIN_TAP_DELAY_MIN \/ x.v > MIN_TAP_DELAY_MAX))

\* C23 as stated: a tunable given an out-of-range value holds its previous
\* value after the call, and a call whose supplied values are all out of
\* range changes neither tunable.
C23_RejectedValueKeepsPrevious ==
    cfgop.op = "config"
        => /\ RejectedInterval(cfgop.ti)
                  => _MULTITAP_CONFIG.tap_interval = cfgop.prev.tap_interval
           /\ RejectedDelay(cfgop.mtd)
                  => _MULTITAP_CONFIG.min_tap_delay = cfgop.prev.min_tap_delay
           /\ ((cfgop.ti.t = "none" \/ RejectedInterval(cfgop.ti))
                 /\ (cfgop.mtd.t = "none" \/ RejectedDelay(cfgop.mtd)))
                  => _MULTITAP_CONFIG = cfgop.prev

\* C23 amended: an out-of-range value is never stored.  A rejected
\* tap_interval leaves tap_interval at its previous value; a rejected
\* min_tap_delay leaves min_tap_delay at its previous value unless that
\* value is not below the tap_interval now stored, in which case it becomes
\* a quarter of that interval; a call whose supplied values are all out of
\* range changes neither tunable.
C23_RejectedValueNeverStored ==
    cfgop.op = "config"
        => /\ RejectedInterval(cfgop.ti)
                  => _MULTITAP_CONFIG.tap_interval = cfgop.prev.tap_interval
           /\ RejectedDelay(cfgop.mtd)
                  => IF cfgop.prev.min_tap_delay < _MULTITAP_CONFIG.tap_interval
                     THEN _MULTITAP_CONFIG.min_tap_delay = cfgop.prev.min_tap_delay
                     ELSE _MULTITAP_CONFIG.min_tap_delay * 4 = _MULTITAP_CONFIG.tap_interval
           /\ ((cfgop.ti.t = "none" \/ RejectedInterval(cfgop.ti))
                 /\ (cfgop.mtd.t = "none" \/ RejectedDelay(cfgop.mtd)))
                  => _MULTITAP_CONFIG = cfgop.prev

\* a rejected min_tap_delay given with an accepted, smaller tap_interval
C23_Witness ==
    /\ cfgop.op = "config"
    /\ RejectedDelay(cfgop.mtd)
    /\ cfgop.ti.t = "num" /\ _MULTITAP_CONFIG.tap_interval = cfgop.ti.v
    /\ cfgop.prev.min_tap_delay >= _MULTITAP_CONFIG.tap_interval

\* C24: when min_tap_delay is not below tap_interval after the stores, it
\* becomes exactly a quarter of the stored tap_interval and tap_interval
\* stays as stored; otherwise the call changes nothing further.
C24_AutoCorrectIsQuarter ==
    cfgop.op = "config"
        => IF cfgop.stored.min_tap_delay >= cfgop.stored.tap_interval
           THEN /\ _MULTITAP_CONFIG.min_tap_delay * 4 = cfgop.stored.tap_interval
                /\ _MULTITAP_CONFIG.tap_interval = cfgop.stored.tap_interval
           ELSE _MULTITAP_CONFIG = cfgop.stored

\* multitap_config(tap_interval=0.2, min_tap_delay=0.25) leaves 0.05
C24_Witness ==
    /\ cfgop.op = "config"
    /\ cfgop.ti = Num(80) /\ cfgop.mtd = Num(100)
    /\ _MULTITAP_CONFIG = [tap_interval |-> 80, min_tap_delay |-> 20]


\* =====================================================================
\* isMultiTap: registration, the binding key and the captured timings
\* =====================================================================
\* Here the clock is reduced to the gap between a tap and the last counted
\* tap of its binding, and the timer to the delay it was armed with; Spec
\* has the clock and the handles.
\* Action values: an output item, None, a list or a tuple of action values.
KeyItem(n) == [k |-> "Key", n |-> n]

ComboItem(n) == [k |-> "Combo", n |-> n]

NoAction == [k |-> "None"]

ListOf(items) == [k |-> "list", items |-> items]

RECURSIVE make_hashable(_)
\* a list becomes the tuple of its converted elements
make_hashable(action) ==
    IF action.k = "list"
    THEN [k |-> "tuple", items |-> [i \in 1..Len(action.items) |-> make_hashable(action.items[i])]]
    ELSE action

\* a key that also holds the timing of the registration
action_key_timed(reg) ==
    <<[i \in 1..5 |-> make_hashable(reg.acts[i])], reg.tap_interval>>

\* action_key = (make_hashable(tap_1_action), ..., make_hashable(tap_5_action))
action_key(reg) == <<[i \in 1..5 |-> make_hashable(reg.acts[i])]>>

\* the value a handler uses: the argument, or the global value of the moment
Captured(arg, global) == IF arg.t = "none" THEN global ELSE arg.v

\* isMultiTap(*acts, tap_interval=ti, min_tap_delay=mtd): the closure returned
isMultiTap(acts, ti, mtd) ==
    LET reg == [acts |-> acts,
                tap_interval |-> Captured(ti, _MULTITAP_CONFIG.tap_interval),
                min_tap_delay |-> Captured(mtd, _MULTITAP_CONFIG.min_tap_delay)]
    IN [acts |-> acts, tap_interval |-> reg.tap_interval, min_tap_delay |-> reg.min_tap_delay,
        own |-> (ti.t # "none" \/ mtd.t # "none"), key |-> action_key(reg)]

\* the dict literal stored for a new run
fresh_state(acts) == [count |-> 0, armed |-> 0, tap_1_action |-> acts[1]]

HandlerIds == {"h1", "h2"}

\* taps counted in one run
MaxRun == 3

\* h = isMultiTap(...)
Register(h, acts, ti) ==
    /\ h \notin DOMAIN handlers
    /\ h = "h2" => "h1" \in DOMAIN handlers
    /\ handlers' = Put(handlers, h, isMultiTap(acts, ti, NoneArg))
    /\ regop' = [RegNoOp("register") EXCEPT !.h = h]
    /\ UNCHANGED <<mt_states, run_by, cfgvars>>

\* handlers[h](ctx), gap seconds after the last counted tap of its binding
RegTap(h, gap) ==
    /\ h \in DOMAIN handlers
    /\ LET hd == handlers[h]
           known == hd.key \in DOMAIN mt_states
           st0 == IF known THEN mt_states[hd.key] ELSE fresh_state(hd.acts)
           too_soon == st0.count > 0 /\ gap < hd.min_tap_delay
           too_late == st0.count > 0 /\ gap >= hd.tap_interval
           st1 == IF too_late THEN fresh_state(hd.acts) ELSE st0
           cnt == st1.count + 1
           arm == cnt <= 5 /\ (st1.tap_1_action.k # "None" \/ cnt > 1)
           st2 == [st1 EXCEPT !.count = cnt, !.armed = IF arm THEN hd.tap_interval ELSE 0]
       IN /\ st0.count < MaxRun \/ too_late
          /\ mt_states' = Put(mt_states, hd.key, IF too_soon THEN st0 ELSE st2)
          /\ run_by' = IF too_soon \/ (st0.count > 0 /\ ~too_late) THEN run_by
                       ELSE Put(run_by, hd.key, h)
          /\ regop' = [op |-> "tap", h |-> h, gap |-> gap,
                       path |-> IF too_soon THEN "too_soon"
                                ELSE IF too_late THEN "too_late" ELSE "counted",
                       classified |-> st0.count > 0,
                       armed |-> IF too_soon THEN 0 ELSE st2.armed]
    /\ UNCHANGED <<handlers, cfgvars>>

\* the finalize callback of a binding runs: finalize_taps deletes its state
RegFinalize(key) ==
    /\ key \in DOMAIN mt_states
    /\ mt_states[key].armed # 0
    /\ mt_states' = Remove(mt_states, key)
    /\ run_by' = Remove(run_by, key)
    /\ regop' = RegNoOp("finalize")
    /\ UNCHANGED <<handlers, cfgvars>>

\* ------------------------------------------------------------- inputs
ActsXYZ ==
    <<KeyItem("x"), ListOf(<<ComboItem("y"), ListOf(<<KeyItem("z")>>)>>),
      NoAction, NoAction, NoAction>>

ActsNo1 == <<NoAction, KeyItem("x"), NoAction, NoAction, NoAction>>

RegActs == {ActsXYZ, ActsNo1}

RegIntervalArgs == {NoneArg, Num(160)}

\* gaps that tell the default timings from the changed ones
Gaps == {30, 110, 130, 170}

CfgIntervalArgs == {NoneArg, Num(120)}

CfgDelayArgs == {NoneArg, Num(40)}

InitReg == OldOff /\ MoreOff

NotReg == <<oldvars, dtvars, cmd, term, latevars>>

NextReg ==
    \/ \E h \in HandlerIds, acts \in RegActs, ti \in RegIntervalArgs :
           Register(h, acts, ti) /\ UNCHANGED NotReg
    \/ \E h \in HandlerIds, gap \in Gaps : RegTap(h, gap) /\ UNCHANGED NotReg
    \/ \E key \in DOMAIN mt_states : RegFinalize(key) /\ UNCHANGED NotReg
    \/ \E ti \in CfgIntervalArgs, mtd \in CfgDelayArgs :
           /\ multitap_config(ti, mtd)
           /\ regop' = RegNoOp("config")
           /\ UNCHANGED <<handlers, mt_states, run_by, NotReg>>

SpecReg == InitReg /\ [][NextReg]_vars

\* C25: a tap on a binding registered without timings of its own is
\* classified, and its finalize timer armed, with the values that
\* _MULTITAP_CONFIG holds at the time of the tap.
C25_TapUsesCurrentTunables ==
    (regop.op = "tap" /\ ~handlers[regop.h].own)
        => /\ regop.classified
                  => /\ regop.path = "too_soon" <=> regop.gap < _MULTITAP_CONFIG.min_tap_delay
                     /\ regop.path = "too_late"
                            <=> /\ regop.gap >= _MULTITAP_CONFIG.min_tap_delay
                                /\ regop.gap >= _MULTITAP_CONFIG.tap_interval
           /\ regop.armed # 0 => regop.armed = _MULTITAP_CONFIG.tap_interval

\* C29: registrations with the same ordered actions have the same binding
\* key, and there is never more than one TapState for the same actions.
C29_SameActionsShareOneState ==
    /\ \A h, g \in DOMAIN handlers :
           handlers[h].acts = handlers[g].acts => handlers[h].key = handlers[g].key
    /\ \A h \in DOMAIN handlers :
           Cardinality({k \in DOMAIN mt_states :
                            \E g \in DOMAIN handlers :
                                handlers[g].acts = handlers[h].acts /\ handlers[g].key = k}) <= 1
    /\ regop.op = "tap" =>
           \A g \in DOMAIN handlers :
               handlers[g].acts = handlers[regop.h].acts
                   => handlers[g].key \in DOMAIN mt_states

\* the second tap of a run, made through a handler other than the one that
\* started the run, the two registered with different timings
C29_Witness ==
    /\ regop.op = "tap" /\ regop.path = "counted"
    /\ mt_states[handlers[regop.h].key].count = 2
    /\ run_by[handlers[regop.h].key] # regop.h
    /\ handlers["h1"].tap_interval # handlers["h2"].tap_interval


\* =====================================================================
\* isDoubleTap: the two-state double-tap detector
\* =====================================================================
\* Times are counted in units of 10 ms.
tapInterval == 24

\* the literal 0.07 of the repeat protection
DT_MIN_GAP == 7

\* the clock stops here
MaxDtNow == 40

\* isDoubleTap(dt_combo) called for a key: two keys bound to the same
\* output value and one bound to another
DtBindings ==
    {[key |-> "k1", out |-> "X"], [key |-> "k2", out |-> "X"], [key |-> "k3", out |-> "Y"]}

\* a value that differs from binding to binding
dt_combo_bykey(binding) == binding.key

\* the dt_combo that the closure of a binding holds
dt_combo(binding) == binding.out

\* no repeat protection
TooShort_never(gap) == FALSE

\* _tapTime - tapTime1 < 0.07
TooShort(gap) == gap < DT_MIN_GAP

\* _isDoubleTap() without the reset of tapCount when the output is sent
DoubleTap_noreset(b) ==
    LET _tapTime == dtnow
        gap == _tapTime - tapTime1
        differs == tapCount = 1 /\ last_dt_combo # dt_combo(b)
        last1 == IF differs THEN NoCombo ELSE last_dt_combo
        cnt1 == IF differs THEN 0 ELSE tapCount
        cnt2 == IF cnt1 = 1 /\ gap >= tapInterval THEN 0 ELSE cnt1
        rec(ret, starter) ==
            [op |-> "tap", b |-> b, ret |-> ret, gap |-> gap,
             pre |-> [tapCount |-> tapCount, last_dt_combo |-> last_dt_combo,
                      starter |-> dtop.starter],
             starter |-> starter]
    IN IF cnt2 = 1 /\ TooShort(gap)
       THEN /\ tapCount' = 0
            /\ last_dt_combo' = last1
            /\ dtop' = rec(NoCombo, dtop.starter)
            /\ UNCHANGED <<tapTime1, dtnow>>
       ELSE IF cnt2 = 1 /\ gap < tapInterval
       THEN /\ tapCount' = 1
            /\ tapTime1' = 0
            /\ last_dt_combo' = last1
            /\ dtop' = rec(dt_combo(b), dtop.starter)
            /\ UNCHANGED dtnow
       ELSE /\ last_dt_combo' = dt_combo(b)
            /\ tapCount' = 1
            /\ tapTime1' = _tapTime
            /\ dtop' = rec(NoCombo, b)
            /\ UNCHANGED dtnow

\* _isDoubleTap() of a binding
DoubleTap(b) ==
    LET _tapTime == dtnow
        gap == _tapTime - tapTime1
        differs == tapCount = 1 /\ last_dt_combo # dt_combo(b)
        last1 == IF differs THEN NoCombo ELSE last_dt_combo
        cnt1 == IF differs THEN 0 ELSE tapCount
        cnt2 == IF cnt1 = 1 /\ gap >= tapInterval THEN 0 ELSE cnt1
        rec(ret, starter) ==
            [op |-> "tap", b |-> b, ret |-> ret, gap |-> gap,
             pre |-> [tapCount |-> tapCount, last_dt_combo |-> last_dt_combo,
                      starter |-> dtop.starter],
             starter |-> starter]
    IN IF cnt2 = 1 /\ TooShort(gap)
       THEN /\ tapCount' = 0
            /\ last_dt_combo' = last1
            /\ dtop' = rec(NoCombo, dtop.starter)
            /\ UNCHANGED <<tapTime1, dtnow>>
       ELSE IF cnt2 = 1 /\ gap < tapInterval
       THEN /\ tapCount' = 0
            /\ tapTime1' = 0
            /\ last_dt_combo' = last1
            /\ dtop' = rec(dt_combo(b), dtop.starter)
            /\ UNCHANGED dtnow
       ELSE /\ last_dt_combo' = dt_combo(b)
            /\ tapCount' = 1
            /\ tapTime1' = _tapTime
            /\ dtop' = rec(NoCombo, b)
            /\ UNCHANGED dtnow

\* time passes
DtSteps == {1, 6, 17}

DtAdvance(d) ==
    /\ dtnow + d <= MaxDtNow
    /\ dtnow' = dtnow + d
    /\ dtop' = [DtNoOp("advance") EXCEPT !.starter = dtop.starter]
    /\ UNCHANGED <<tapTime1, tapCount, last_dt_combo>>

InitDt == OldOff /\ MoreOff

NotDt == <<oldvars, cfgvars, regvars, cmd, term, latevars>>

NextDt ==
    \/ \E b \in DtBindings : DoubleTap(b) /\ UNCHANGED NotDt
    \/ \E d \in DtSteps : DtAdvance(d) /\ UNCHANGED NotDt

SpecDt == InitDt /\ [][NextDt]_vars

\* C26: a call returns the bound output exactly when a cycle opened by the
\* same output value is open and the call comes at least 0.07 s and less
\* than tapInterval after the tap that opened it; every other call
\* returns nothing.
C26_OutputOnlyOnSecondTapInWindow ==
    dtop.op = "tap"
        => /\ dtop.ret # NoCombo
                  <=> /\ dtop.pre.tapCount = 1
                      /\ dtop.pre.last_dt_combo = dtop.b.out
                      /\ DT_MIN_GAP <= dtop.gap /\ dtop.gap < tapInterval
           /\ dtop.ret # NoCombo => dtop.ret = dtop.b.out

\* a second tap that came sooner than 0.07 s and returned nothing
C26_Witness ==
    /\ dtop.op = "tap" /\ dtop.ret = NoCombo
    /\ dtop.pre.tapCount = 1 /\ dtop.pre.last_dt_combo = dtop.b.out
    /\ dtop.gap < DT_MIN_GAP

\* C27: a tap through one binding followed within the window by a tap
\* through a binding of another key with the same output value returns
\* the output.
C27_SameOutputSharesCycle ==
    (/\ dtop.op = "tap"
     /\ dtop.pre.tapCount = 1
     /\ dtop.pre.starter.key # dtop.b.key /\ dtop.pre.starter.out = dtop.b.out
     /\ DT_MIN_GAP <= dtop.gap /\ dtop.gap < tapInterval)
        => dtop.ret = dtop.b.out

\* a cycle opened through k1 and closed, with output, through k2
C27_Witness ==
    /\ dtop.op = "tap" /\ dtop.ret = "X"
    /\ dtop.pre.tapCount = 1
    /\ dtop.pre.starter.key = "k1" /\ dtop.b.key = "k2"


\* =====================================================================
\* process_multitap_command: dispatch of an action value
\* =====================================================================
\* an object whose class is neither a Combo nor a Key
OtherItem == [k |-> "Other"]

\* a callable of params parameters that returns result
Fn(params, result) == [k |-> "fn", params |-> params, result |-> result]

\* the list items from the last to the first
ItemOrder_reversed(n) == [i \in 1..n |-> n + 1 - i]

\* for i, item in enumerate(command)
ItemOrder(n) == [i \in 1..n |-> i]

\* the else branch: output.send_combo(command) or output.send_key(command)
SendLeaf(command, output_ok) ==
    IF output_ok /\ command.k = "Combo" THEN <<[via |-> "send_combo", item |-> command]>>
    ELSE IF output_ok /\ command.k = "Key" THEN <<[via |-> "send_key", item |-> command]>>
    ELSE <<>>

RECURSIVE process_multitap_command(_, _), ProcessItems(_, _, _, _)
\* the calls made on the output, in order
process_multitap_command(command, output_ok) ==
    IF command.k = "fn"
    THEN IF command.result.k = "None" THEN <<>>
         ELSE process_multitap_command(command.result, output_ok)
    ELSE IF command.k = "list"
    THEN ProcessItems(command.items, ItemOrder(Len(command.items)), 1, output_ok)
    ELSE SendLeaf(command, output_ok)

ProcessItems(items, order, j, output_ok) ==
    IF j > Len(order) THEN <<>>
    ELSE process_multitap_command(items[order[j]], output_ok)
             \o ProcessItems(items, order, j + 1, output_ok)

\* ------------------------------------------------------------- inputs
CmdAtoms == {KeyItem("a"), ComboItem("C-b"), NoAction, OtherItem}

CmdShallow ==
    CmdAtoms
    \cup {ListOf(<<x>>) : x \in CmdAtoms}
    \cup {ListOf(<<x, y>>) : x, y \in {KeyItem("a"), ComboItem("C-b"), KeyItem("c")}}
    \cup {Fn(n, x) : n \in {0, 1}, x \in CmdAtoms}

CmdNested ==
    {ListOf(<<KeyItem("a"), ListOf(<<ComboItem("C-b"), KeyItem("c")>>), KeyItem("d")>>),
     ListOf(<<ListOf(<<ListOf(<<KeyItem("a")>>), ComboItem("C-b")>>), KeyItem("a")>>),
     ListOf(<<Fn(0, ListOf(<<KeyItem("a"), ComboItem("C-b")>>)), KeyItem("c")>>),
     ListOf(<<KeyItem("c"), Fn(1, Fn(0, KeyItem("a"))), NoAction, ComboItem("C-b")>>),
     Fn(1, ListOf(<<Fn(0, NoAction), KeyItem("a"), Fn(0, ComboItem("C-b"))>>)),
     ListOf(<<>>)}
    \cup {ListOf(<<x, y>>) : x \in {Fn(0, KeyItem("a")), ListOf(<<KeyItem("c"), OtherItem>>)},
                             y \in CmdShallow}

Commands == CmdShallow \cup CmdNested

CmdInit ==
    \E c \in Commands, ok \in BOOLEAN :
        cmd = [phase |-> "input", command |-> c, output_ok |-> ok, sent |-> <<>>]

\* process_multitap_command(command, ctx)
Dispatch ==
    /\ cmd.phase = "input"
    /\ cmd' = [cmd EXCEPT !.phase = "done",
                          !.sent = process_multitap_command(cmd.command, cmd.output_ok)]

InitCmd == OldOff /\ CfgOff /\ RegOff /\ DtOff /\ term = TermOff /\ LateOff /\ CmdInit

NotCmd == <<oldvars, cfgvars, regvars, dtvars, term, latevars>>

NextCmd == Dispatch /\ UNCHANGED NotCmd

SpecCmd == InitCmd /\ [][NextCmd]_vars

RECURSIVE LeafItems(_)
\* the output items (Key, Combo) at the leaves of an action, depth first,
\* left to right, a computation standing for its result
LeafItems(c) ==
    IF c.k \in {"Key", "Combo"} THEN <<c>>
    ELSE IF c.k = "fn" THEN LeafItems(c.result)
    ELSE IF c.k = "list" /\ c.items # <<>>
    THEN LeafItems(Head(c.items)) \o LeafItems(ListOf(Tail(c.items)))
    ELSE <<>>

\* C28: with the output of the keymapper available, the items sent are
\* exactly the output items at the leaves of the action, depth first and
\* left to right, each once, a Combo by send_combo and a Key by send_key.
C28_SendsLeavesInOrder ==
    (cmd.phase = "done" /\ cmd.output_ok)
        => /\ [i \in 1..Len(cmd.sent) |-> cmd.sent[i].item] = LeafItems(cmd.command)
           /\ \A i \in 1..Len(cmd.sent) :
                  cmd.sent[i].via = IF cmd.sent[i].item.k = "Combo" THEN "send_combo" ELSE "send_key"

\* a list holding a computation that returns a list, three items sent
C28_Witness ==
    /\ cmd.phase = "done" /\ cmd.output_ok
    /\ Len(cmd.sent) = 3
    /\ cmd.command.k = "list"
    /\ Len(cmd.command.items) > 0
    /\ cmd.command.items[1].k = "fn"


\* =====================================================================
\* terminal_utils.run_cmd_lst_in_terminal
\* =====================================================================
TermApp(name, des) == [cmd |-> name, de_list |-> des]

\* terminal emulators in descending order of preference
TERMINAL_APPS ==
    << TermApp("gnome-terminal", {"gnome", "unity", "cinnamon"}),
       TermApp("ptyxis", {"gnome", "unity", "cinnamon"}),
       TermApp("konsole", {"kde"}),
       TermApp("xfce4-terminal", {"xfce"}),
       TermApp("mate-terminal", {"mate"}),
       TermApp("qterminal", {"lxqt"}),
       TermApp("lxterminal", {"lxde"}),
       TermApp("terminology", {"enlightenment"}),
       TermApp("cosmic-term", {"cosmic"}),
       TermApp("io.elementary.terminal", {"pantheon"}),
       TermApp("kitty", {}),
       TermApp("alacritty", {}),
       TermApp("tilix", {}),
       TermApp("terminator", {}),
       TermApp("xterm", {}),
       TermApp("rxvt", {}),
       TermApp("urxvt", {}),
       TermApp("st", {}),
       TermApp("kgx", {}) >>

\* desktop_env.casefold() on the values used as inputs
casefold(de) ==
    CASE de = "KDE" -> "kde"
      [] de = "Gnome" -> "gnome"
      [] OTHER -> de

\* isinstance(command_list, list) and all items are str
ValidCommandList(cl) == cl \in {"list_of_str", "empty_list"}

\* no first pass at all
FirstPass_none(desktop_env) == <<>>

\* the first pass over the terminals of the desktop environment
FirstPass(desktop_env) ==
    IF desktop_env \in {"None", ""} THEN <<>>
    ELSE SelectSeq(TERMINAL_APPS, LAMBDA app : casefold(desktop_env) \in app.de_list)

\* the terminals tried, in order: first pass, then every terminal
Candidates(desktop_env) == FirstPass(desktop_env) \o TERMINAL_APPS

ReturnValue(v) == [kind |-> "return", v |-> v]

Raised(exc) == [kind |-> "raise", exc |-> exc]

\* the end of the second pass: no terminal was launched
NoTerminalFound == Raised("TerminalNotFoundError")

\* _try_terminal does not return False for this candidate: the terminal is
\* on the PATH and Popen does not raise a SubprocessError
Decisive(app, installed, failing, fault) ==
    /\ app.cmd \in installed
    /\ ~(app.cmd \in failing /\ fault = "SubprocessError")

\* the outcome of run_cmd_lst_in_terminal(command_list, desktop_env); the
\* resolution of a bare command name (lines 95-98) changes the arguments
\* handed to the terminal, not the outcome
run_cmd_lst_in_terminal(command_list, desktop_env, installed, failing, fault) ==
    IF ~ValidCommandList(command_list) THEN ReturnValue(FALSE)
    ELSE IF command_list = "empty_list" THEN ReturnValue(FALSE)
    ELSE LET cands == Candidates(desktop_env)
             hits == {i \in 1..Len(cands) : Decisive(cands[i], installed, failing, fault)}
         IN  IF hits = {} THEN NoTerminalFound
             ELSE LET first == CHOOSE i \in hits : \A j \in hits : i <= j
                  IN  IF cands[first].cmd \in failing
                      THEN Raised(fault)
                      ELSE [kind |-> "return", v |-> TRUE, terminal |-> cands[first].cmd]

\* ------------------------------------------------------------- inputs
CommandLists == {"list_of_str", "empty_list", "not_a_list", "list_with_non_str"}

DesktopEnvs == {"None", "", "KDE", "Gnome", "xfce", "sway"}

TerminalPool == {"ptyxis", "konsole", "kitty", "xterm"}

PopenFaults == {"SubprocessError", "OSError"}

TermInit ==
    \E cl \in CommandLists, de \in DesktopEnvs, inst \in SUBSET TerminalPool,
       fault \in PopenFaults :
        \E bad \in SUBSET inst :
            term = [phase |-> "input", command_list |-> cl, desktop_env |-> de,
                    installed |-> inst, failing |-> bad, fault |-> fault,
                    result |-> NoOutcome]

\* run_cmd_lst_in_terminal(command_list, desktop_env)
RunInTerminal ==
    /\ term.phase = "input"
    /\ term' = [term EXCEPT !.phase = "done",
                            !.result = run_cmd_lst_in_terminal(term.command_list,
                                           term.desktop_env, term.installed,
                                           term.failing, term.fault)]

InitTerm == OldOff /\ CfgOff /\ RegOff /\ DtOff /\ cmd = CmdOff /\ LateOff /\ TermInit

NotTerm == <<oldvars, cfgvars, regvars, dtvars, cmd, latevars>>

NextTerm == RunInTerminal /\ UNCHANGED NotTerm

SpecTerm == InitTerm /\ [][NextTerm]_vars

\* C30: every call ends by returning a boolean, False when no terminal of
\* the list is installed or can be launched.
C30_AlwaysReturnsBoolean ==
    term.phase = "done"
        => /\ term.result.kind = "return"
           /\ term.result.v \in BOOLEAN
           /\ (term.installed \ term.failing = {}) => term.result.v = FALSE


\* the positions in TERMINAL_APPS of the installed terminals that Popen starts
LaunchableAt == {i \in 1..Len(TERMINAL_APPS) : TERMINAL_APPS[i].cmd \in term.installed \ term.failing}

\* those of them listed for the desktop environment given, compared in lower case
LaunchableForDE ==
    {i \in LaunchableAt :
        /\ term.desktop_env \notin {"None", ""}
        /\ \/ term.desktop_env = "KDE" /\ "kde" \in TERMINAL_APPS[i].de_list
           \/ term.desktop_env = "Gnome" /\ "gnome" \in TERMINAL_APPS[i].de_list
           \/ term.desktop_env \in TERMINAL_APPS[i].de_list}

FirstOf(S) == CHOOSE i \in S : \A j \in S : i <= j

\* the terminal C31 expects: the first launchable one listed for the desktop
\* environment given, if there is one, otherwise the first launchable one
PreferredTerminal ==
    TERMINAL_APPS[IF LaunchableForDE # {} THEN FirstOf(LaunchableForDE)
                  ELSE FirstOf(LaunchableAt)].cmd

known_wlroots_compositors == <<>>

InList(x, lst) == \E i \in 1..Len(lst) : lst[i] = x

\* locals().get('OVERRIDE_X') or env_ctxt.get('X', 'keymissing')
Resolved(override, detected) == IF override \notin {"None", ""} THEN override ELSE detected

\* lines 207-229
_wl_compositor(DESKTOP_ENV, WINDOW_MGR, wlroots_compositors) ==
    IF wlroots_compositors # <<>> /\ InList(WINDOW_MGR, wlroots_compositors) THEN "wlroots"
    ELSE IF wlroots_compositors # <<>> /\ InList(DESKTOP_ENV, wlroots_compositors) THEN "wlroots"
    ELSE IF InList(WINDOW_MGR, known_wlroots_compositors) THEN "wlroots"
    ELSE IF InList(DESKTOP_ENV, known_wlroots_compositors) THEN "wlroots"
    ELSE WINDOW_MGR

\* ------------------------------------------------------------- inputs
SessionTypes == {"wayland", "x11"}

DesktopEnvNames == {"gnome", "GNOME", "kde", "sway"}

WindowMgrs == {"WM_unidentified_by_logic", "mutter", "gnome-shell", "kwin_wayland", "sway", "keymissing"}

UserWlrootsLists == {<<>>, <<"sway">>, <<"labwc", "kde">>}

WmOverrides == {"None", "", "hyprland"}

EnvInit ==
    \E st \in SessionTypes, de \in DesktopEnvNames, wm \in WindowMgrs,
       lst \in UserWlrootsLists, ov \in WmOverrides, api \in BOOLEAN :
        env = [phase |-> "loading", detected |-> [SESSION_TYPE |-> st, DESKTOP_ENV |-> de, WINDOW_MGR |-> wm],
               OVERRIDE_WINDOW_MGR |-> ov, wlroots_compositors |-> lst,
               environ_api_defined |-> api]

\* lines 165-236: the module body resolves the environment, chooses the
\* compositor and calls environ_api (a NameError is logged and passed over)
LoadConfig ==
    /\ env.phase = "loading"
    /\ LET SESSION_TYPE == Resolved("None", env.detected.SESSION_TYPE)
           DESKTOP_ENV == Resolved("None", env.detected.DESKTOP_ENV)
           WINDOW_MGR == Resolved(env.OVERRIDE_WINDOW_MGR, env.detected.WINDOW_MGR)
           comp == _wl_compositor(DESKTOP_ENV, WINDOW_MGR, env.wlroots_compositors)
       IN  env' = [phase |-> "loaded",
                   SESSION_TYPE |-> SESSION_TYPE, DESKTOP_ENV |-> DESKTOP_ENV,
                   WINDOW_MGR |-> WINDOW_MGR,
                   wlroots_compositors |-> env.wlroots_compositors,
                   calls |-> IF env.environ_api_defined
                             THEN <<[session_type |-> SESSION_TYPE, wl_compositor |-> comp]>>
                             ELSE <<>>]

InitEnv == OldOff /\ CfgOff /\ RegOff /\ DtOff /\ cmd = CmdOff /\ term = TermOff
           /\ ief = IefOff /\ kb = KbOff /\ rpt = RptOff /\ EnvInit

NotEnv == <<oldvars, cfgvars, regvars, dtvars, cmd, term, ief, kb, rpt>>

NextEnv == LoadConfig /\ UNCHANGED NotEnv

SpecEnv == InitEnv /\ [][NextEnv]_vars

\* neither WINDOW_MGR nor DESKTOP_ENV is in a wlroots list
NoWlrootsMatch ==
    \A i \in 1..Len(env.wlroots_compositors) :
        env.wlroots_compositors[i] \notin {env.WINDOW_MGR, env.DESKTOP_ENV}

\* C32: when no wlroots list matches, the compositor passed to environ_api
\* is 'gnome' exactly for a wayland session of the gnome desktop whose window
\* manager is 'WM_unidentified_by_logic', and WINDOW_MGR otherwise.
C32_GnomeWaylandFallback ==
    (env.phase = "loaded" /\ env.calls # <<>> /\ NoWlrootsMatch)
        => env.calls[1].wl_compositor =
               IF /\ env.SESSION_TYPE = "wayland"
                  /\ env.DESKTOP_ENV = "gnome"
                  /\ env.WINDOW_MGR = "WM_unidentified_by_logic"
               THEN "gnome"
               ELSE env.WINDOW_MGR


\* =====================================================================
\* iEF2: the Enter key that sends F2 or Enter by turns
\* =====================================================================
MaxIefCalls == 3      \* calls of iEF2 handlers in a behaviour

BoolArg(v) == [k |-> "bool", v |-> v]

\* the closure made by iEF2(combo_if_true, latch_or_combo_if_false,
\*                          keep_value_if_true, keep_value_if_false)
iEF2(combo_if_true, latch_or_combo_if_false, keep_value_if_true, keep_value_if_false) ==
    [combo_if_true |-> combo_if_true, latch_or_combo_if_false |-> latch_or_combo_if_false,
     keep_value_if_true |-> keep_value_if_true, keep_value_if_false |-> keep_value_if_false]

\* iEF2(None, True)
iEF2NT == iEF2(NoAction, BoolArg(TRUE), FALSE, FALSE)

\* latch_or_combo_if_false in (True, False)
IsLatch(arg) == arg.k = "bool"

\* the keep flag is not looked at
KeepIsFalse_always(keep) == TRUE

\* keep_value_if_true is False, keep_value_if_false is False
KeepIsFalse(keep) == keep = FALSE

\* _is_Enter_F2(): the list returned and the value of _enter_is_F2 left
_is_Enter_F2(h, flag) ==
    IF IsLatch(h.latch_or_combo_if_false)
    THEN [ret |-> <<h.combo_if_true>>, flag |-> h.latch_or_combo_if_false.v]
    ELSE IF flag
    THEN [ret |-> <<h.combo_if_true>>,
          flag |-> IF KeepIsFalse(h.keep_value_if_true) THEN FALSE ELSE flag]
    ELSE [ret |-> <<h.latch_or_combo_if_false>>,
          flag |-> IF KeepIsFalse(h.keep_value_if_false) THEN TRUE ELSE flag]

\* ------------------------------------------------------------- inputs
IefHandlers ==
    {iEF2(ComboItem("F2"), ComboItem("Enter"), kt, kf) : kt, kf \in BOOLEAN}
    \cup {iEF2(ComboItem("Esc"), ComboItem("C-z"), FALSE, FALSE),
          iEF2(ComboItem("Enter"), BoolArg(TRUE), FALSE, FALSE),
          iEF2(ComboItem("Enter"), BoolArg(FALSE), TRUE, TRUE),
          iEF2NT}

\* the keymapper calls the handler bound to the key pressed
CallIEF2(h) ==
    /\ Len(ief.calls) < MaxIefCalls
    /\ LET r == _is_Enter_F2(h, ief.flag)
       IN  ief' = [flag |-> r.flag,
                   calls |-> Append(ief.calls, [h |-> h, pre |-> ief.flag,
                                                ret |-> r.ret, post |-> r.flag])]

InitIef == OldOff /\ CfgOff /\ RegOff /\ DtOff /\ cmd = CmdOff /\ term = TermOff
           /\ env = EnvOff /\ kb = KbOff /\ rpt = RptOff /\ ief = IefOff

NotIef == <<oldvars, cfgvars, regvars, dtvars, cmd, term, env, kb, rpt>>

NextIef == \E h \in IefHandlers : CallIEF2(h) /\ UNCHANGED NotIef

SpecIef == InitIef /\ [][NextIef]_vars

\* the handler of call c was made with two combos
TwoCombos(c) == c.h.latch_or_combo_if_false.k = "Combo"

\* C33: a handler made with two combos returns combo_if_true when the flag
\* is True and clears the flag unless keep_value_if_true, returns the other
\* combo when the flag is False and sets the flag unless keep_value_if_false,
\* so that with default keep flags successive calls alternate; a handler
\* made with a boolean sets the flag to it and returns combo_if_true.
C33_EnterF2Toggle ==
    /\ \A i \in 1..Len(ief.calls) :
        LET c == ief.calls[i] IN
        /\ (TwoCombos(c) /\ c.pre)
               => (c.ret = <<c.h.combo_if_true>> /\ c.post = c.h.keep_value_if_true)
        /\ (TwoCombos(c) /\ ~c.pre)
               => (c.ret = <<c.h.latch_or_combo_if_false>> /\ c.post = ~c.h.keep_value_if_false)
        /\ ~TwoCombos(c)
               => (c.ret = <<c.h.combo_if_true>> /\ c.post = c.h.latch_or_combo_if_false.v)
    /\ \A i \in 1..(Len(ief.calls) - 1) :
        LET c == ief.calls[i]
            d == ief.calls[i + 1]
        IN  ( /\ c.h = d.h /\ TwoCombos(c)
              /\ ~c.h.keep_value_if_true /\ ~c.h.keep_value_if_false )
                => c.ret # d.ret
    /\ ief.calls # <<>> => ief.flag = ief.calls[Len(ief.calls)].post

\* F2, Enter, F2 from three calls of one default handler, and elsewhere a
\* call that kept the flag
C33_Witness ==
    /\ Len(ief.calls) = 3
    /\ ief.calls[1].h = iEF2(ComboItem("F2"), ComboItem("Enter"), FALSE, FALSE)
    /\ ief.calls[2].h = ief.calls[1].h
    /\ ief.calls[3].h = ief.calls[1].h
    /\ ief.calls[1].ret = <<ComboItem("F2")>>
    /\ ief.calls[2].ret = <<ComboItem("Enter")>>
    /\ ief.calls[3].ret = <<ComboItem("F2")>>


\* =====================================================================
\* isMultiTap under a stream of taps on one binding, with the clock
\* =====================================================================
\* rpt.since is the time from the last counted tap of the binding to the
\* tap event before this one; rpt.repeat says that every tap of the stream
\* since the one that opened the run arrived less than min_tap_delay after
\* the tap event before it.  Times in units of 2.5 ms.
\* times between one tap event and the next: three repeat rates, a deliberate
\* second tap, a pause
StreamGaps == {10, 15, 20, 60, 120}

\* handlers["h1"](ctx), d after the tap event before it; a finalize timer
\* due before the tap has run before it
StreamTap(d) ==
    LET hd == handlers["h1"]
        open == hd.key \in DOMAIN mt_states
        gap == rpt.since + d
    IN  /\ open /\ mt_states[hd.key].armed # 0 => gap <= mt_states[hd.key].armed
        /\ RegTap("h1", gap)
        /\ rpt' = [since |-> IF regop'.path = "too_soon" THEN gap ELSE 0,
                   repeat |-> IF regop'.path = "too_soon" THEN rpt.repeat
                              ELSE IF regop'.path = "too_late" \/ ~open THEN TRUE
                              ELSE rpt.repeat /\ d < hd.min_tap_delay]

\* the stream pauses and the finalize timer of the binding runs
StreamFinalize ==
    /\ RegFinalize(handlers["h1"].key)
    /\ rpt' = RptOff

InitRpt ==
    /\ OldOff /\ CfgOff /\ DtOff /\ cmd = CmdOff /\ term = TermOff
    /\ env = EnvOff /\ ief = IefOff /\ kb = KbOff
    /\ \E acts \in RegActs, ti \in RegIntervalArgs :
           handlers = Put(<<>>, "h1", isMultiTap(acts, ti, NoneArg))
    /\ mt_states = <<>>
    /\ run_by = <<>>
    /\ regop = RegNoOp("none")
    /\ rpt = RptOff

NotRpt == <<oldvars, dtvars, cmd, term, env, ief, kb>>

NextRpt ==
    \/ \E d \in StreamGaps : StreamTap(d) /\ UNCHANGED NotRpt
    \/ StreamFinalize /\ UNCHANGED NotRpt

SpecRpt == InitRpt /\ [][NextRpt]_vars

\* C34: while every tap of a stream arrives less than min_tap_delay after
\* the tap before it, the count of the run stays at 1.
C34_RepeatStreamKeepsCountAtOne ==
    \A key \in DOMAIN mt_states : rpt.repeat => mt_states[key].count <= 1


\* ---------------------------------------------------------------------
\* matchProps: when the validation of the arguments is skipped
\* ---------------------------------------------------------------------
\* a matchProps call with arguments a guard clause rejects that raised nothing
SkippedValidation ==
    /\ Construct(held'.a, TRUE) \/ Construct(held'.a, FALSE)
    /\ GuardClauses(held'.a) # ""
    /\ mres'.raised = ""

\* C35: a call skips the validation of its arguments only when the number
\* of evaluations has reached the threshold and more than 6 seconds have
\* passed since startup: no call made before the threshold, and no call
\* made within the first 6 seconds, skips it.
C35_SkipNeedsCountAndTime ==
    [][SkippedValidation
          => /\ total_matchProps_iterations >= MAX_MATCHPROPS_ITERATIONS
             /\ ~Construct(held'.a, FALSE)]_vars


\* ---------------------------------------------------------------------
\* isMultiTap: how often a run is finalized
\* ---------------------------------------------------------------------
\* a finalize callback ran for a binding that had no TapState
FireWithoutState ==
    /\ op'.kind = "fire"
    /\ Cardinality(DOMAIN timers') < Cardinality(DOMAIN timers)
    /\ op'.key \notin DOMAIN tap_states

\* C36: a finalization is of the TapState its binding had, with that
\* state's count, and removes it before it dispatches, so that the state left
\* is none (timer) or the fresh one of the tap that found the run stale; a
\* step makes at most one finalization; and a finalize callback that finds
\* no TapState for its binding dispatches nothing and leaves tap_states as
\* it was.
C36_RunFinalizedAtMostOnce ==
    [][/\ Len(fin') <= 1
       /\ fin' # <<>> =>
            LET f == fin'[1] IN
            /\ f.idle
            /\ f.key \in DOMAIN tap_states
            /\ f.count = tap_states[f.key].count
            /\ IF f.via = "timer" THEN f.key \notin DOMAIN tap_states'
               ELSE /\ op'.kind = "tap"
                    /\ tap_states'[f.key].count = 1
                    /\ tap_states'[f.key].last_tap_time = now
       /\ FireWithoutState => (fin' = <<>> /\ tap_states' = tap_states)]_vars

\* a finalize callback ran and found no TapState for its binding
C36_Witness == op.kind = "fire" /\ fin = <<>>

\* ---------------------------------------------------------------------
\* isMultiTap: bindings with different action keys
\* ---------------------------------------------------------------------
\* the step left binding j as it was: its TapState, its pending callbacks
\* and no action of it dispatched
Untouched(j) ==
    /\ j \in DOMAIN tap_states <=> j \in DOMAIN tap_states'
    /\ j \in DOMAIN tap_states => tap_states'[j] = tap_states[j]
    /\ \A h \in DOMAIN timers :
           timers[h].key = j => (h \in DOMAIN timers' /\ timers'[h] = timers[h])
    /\ \A h \in DOMAIN timers' :
           timers'[h].key = j => h \in DOMAIN timers
    /\ fin' # <<>> => fin'[1].key # j

\* C37: a tap on a binding, or a finalize callback of it, leaves the
\* TapState and the pending callbacks of every binding with another key
\* unchanged and dispatches no action of another binding.
C37_OtherBindingsUntouched ==
    [][\A j \in Keys : (op'.kind \in {"tap", "fire"} /\ op'.key # j) => Untouched(j)]_vars

\* a binding was finalized while the other binding had a TapState
C37_Witness ==
    /\ op.kind \in {"tap", "fire"}
    /\ fin # <<>>
    /\ fin[1].dispatched
    /\ \E j \in Keys \ {op.key} : j \in DOMAIN tap_states /\ tap_states[j].count >= 1


\* ---------------------------------------------------------------------
\* isDoubleTap: the cycle counter
\* ---------------------------------------------------------------------
\* C38: tapCount is 0 or 1 in every state and 0 right after a call that
\* returned the output; a call made while tapCount is 0, the third of three
\* qualifying taps among them, returns nothing and only opens a new cycle
\* at the current time.
C38_TapCountZeroOrOne ==
    /\ [](tapCount \in {0, 1})
    /\ [][/\ (dtop'.op = "tap" /\ dtop'.ret # NoCombo) => tapCount' = 0
          /\ (dtop.op = "tap" /\ dtop.ret # NoCombo /\ dtop'.op = "tap")
                 => (/\ dtop'.ret = NoCombo
                     /\ tapCount' = 1
                     /\ tapTime1' = dtnow
                     /\ last_dt_combo' = dtop'.b.out)
          /\ (tapCount = 0 /\ dtop'.op = "tap") => dtop'.ret = NoCombo]_vars

\* the second of two qualifying taps has just returned the output
C38_Witness ==
    /\ dtop.op = "tap" /\ dtop.ret = dtop.b.out
    /\ dtop.pre.tapCount = 1
    /\ tapCount = 0

\* =====================================================================
\* getKBtype: the keyboard type of the current device and its cache
\* =====================================================================
valid_kbtypes == <<"IBM", "Chromebook", "Windows", "Apple">>

\* device names that ctx.device_name takes
KbDevices ==
    {"My Keyboard Device Name", "MY KEYBOARD DEVICE NAME", "AT Translated Set 2 keyboard",
     "Apple Inc. Magic Keyboard", "Lenovo IBM Thinkpad", "Logitech K380"}

\* values of cnfg.override_kbtype: unset, two valid types, one that is no type
KbOverrides == {"None", "Apple", "IBM", "Auto"}

\* ctx.device_name.casefold()
kbd_dev_name_cf(dev) ==
    CASE dev \in {"My Keyboard Device Name", "MY KEYBOARD DEVICE NAME"} -> "my keyboard device name"
      [] dev = "AT Translated Set 2 keyboard" -> "at translated set 2 keyboard"
      [] dev = "Apple Inc. Magic Keyboard" -> "apple inc. magic keyboard"
      [] dev = "Lenovo IBM Thinkpad" -> "lenovo ibm thinkpad"
      [] dev = "Logitech K380" -> "logitech k380"

\* kbds_UserCustom_dct_cf.get(name_cf, '')
kbds_UserCustom_dct_cf(name_cf) ==
    IF name_cf = "my keyboard device name" THEN "Apple" ELSE ""

\* the first type, in the order of kbtype_lists_rgx, one of whose compiled
\* patterns is found in the name: 'AT.*Translated.*Set.*2.*keyboard' of the
\* Windows list, 'Magic.*Keyboard' of the Apple list
kbtype_lists_rgx(name_cf) ==
    CASE name_cf = "at translated set 2 keyboard" -> "Windows"
      [] name_cf = "apple inc. magic keyboard" -> "Apple"
      [] OTHER -> ""

\* the first of 'ibm', 'chromebook', 'windows', 'apple' contained in the name
TypeInDevName(name_cf) ==
    CASE name_cf = "lenovo ibm thinkpad" -> "IBM"
      [] name_cf = "apple inc. magic keyboard" -> "Apple"
      [] OTHER -> ""

\* not_win_type_rgx.search(name_cf)
not_win_type_rgx(name_cf) == name_cf \in {"lenovo ibm thinkpad", "apple inc. magic keyboard"}

\* all_kbds_rgx.search(name_cf): the name is one of the listed names
all_kbds_rgx(name_cf) == name_cf = "at translated set 2 keyboard"

\* the checks of _getKBtype below the cache lookup: type, message, cache_dev
UncachedKBtype(dev) ==
    LET name_cf == kbd_dev_name_cf(dev)
        custom_kbtype == kbds_UserCustom_dct_cf(name_cf)
    IN IF custom_kbtype # "" /\ InList(custom_kbtype, valid_kbtypes)
       THEN [type |-> custom_kbtype, msg |-> "Custom type for dev", cache_dev |-> TRUE]
       ELSE IF kbtype_lists_rgx(name_cf) # ""
       THEN [type |-> kbtype_lists_rgx(name_cf), msg |-> "Rgx matched on dev", cache_dev |-> TRUE]
       ELSE IF TypeInDevName(name_cf) # ""
       THEN [type |-> TypeInDevName(name_cf), msg |-> "Type in dev name", cache_dev |-> TRUE]
       ELSE IF /\ TypeInDevName(name_cf) # "Windows"
               /\ ~not_win_type_rgx(name_cf)
               /\ ~all_kbds_rgx(name_cf)
       THEN [type |-> "Windows", msg |-> "Default type for dev", cache_dev |-> TRUE]
       ELSE [type |-> "unidentified", msg |-> "Dev fell through all checks", cache_dev |-> FALSE]

\* log_kbtype that stores whatever it logs
log_kbtype_always(cache, dev, type, msg, cache_dev) ==
    Put(cache, dev, [type |-> type, msg |-> msg])

\* log_kbtype(msg, cache_dev): the cache after the call
log_kbtype(cache, dev, type, msg, cache_dev) ==
    IF cache_dev THEN Put(cache, dev, [type |-> type, msg |-> msg]) ELSE cache

\* _getKBtype(ctx) with ctx.device_name = dev
_getKBtype(dev) ==
    LET pre == [KBTYPE |-> kb.KBTYPE, cache |-> kb.cache, override |-> kb.override]
        done(type, cache) ==
            kb' = [kb EXCEPT !.KBTYPE = type, !.cache = cache,
                             !.op = [op |-> "eval", dev |-> dev, pre |-> pre]]
        res == UncachedKBtype(dev)
    IN IF InList(kb.override, valid_kbtypes)
       THEN done(kb.override,
                 log_kbtype(kb.cache, dev, kb.override, "WARNING: Override applied! Dev", FALSE))
       ELSE IF dev \in DOMAIN kb.cache
       THEN done(kb.cache[dev].type,
                 log_kbtype(kb.cache, dev, kb.cache[dev].type, "(CACHED)", FALSE))
       ELSE done(res.type, log_kbtype(kb.cache, dev, res.type, res.msg, res.cache_dev))

\* the preference cnfg.override_kbtype is changed
SetOverrideKBtype(v) ==
    /\ v # kb.override
    /\ kb' = [kb EXCEPT !.override = v, !.op = [op |-> "override"]]

InitKb == OldOff /\ CfgOff /\ RegOff /\ DtOff /\ cmd = CmdOff /\ term = TermOff
          /\ env = EnvOff /\ ief = IefOff /\ rpt = RptOff /\ kb = KbOff

NotKb == <<oldvars, cfgvars, regvars, dtvars, cmd, term, env, ief, rpt>>

NextKb ==
    \/ \E dev \in KbDevices : _getKBtype(dev) /\ UNCHANGED NotKb
    \/ \E v \in KbOverrides : SetOverrideKBtype(v) /\ UNCHANGED NotKb

SpecKb == InitKb /\ [][NextKb]_vars

\* C39: every cache entry holds the type and message of the uncached checks
\* for its device and never 'unidentified'; an evaluation under a valid
\* override sets KBTYPE to the override and leaves the cache as it was; an
\* evaluation of a cached device without override sets KBTYPE to the cached
\* type and leaves the cache as it was.
C39_CacheHoldsUncachedType ==
    /\ \A dev \in DOMAIN kb.cache :
           /\ kb.cache[dev].type = UncachedKBtype(dev).type
           /\ kb.cache[dev].msg = UncachedKBtype(dev).msg
           /\ kb.cache[dev].type # "unidentified"
    /\ kb.op.op = "eval" =>
           /\ InList(kb.op.pre.override, valid_kbtypes)
                  => kb.KBTYPE = kb.op.pre.override /\ kb.cache = kb.op.pre.cache
           /\ (~InList(kb.op.pre.override, valid_kbtypes) /\ kb.op.dev \in DOMAIN kb.op.pre.cache)
                  => kb.KBTYPE = kb.op.pre.cache[kb.op.dev].type /\ kb.cache = kb.op.pre.cache
           /\ (~InList(kb.op.pre.override, valid_kbtypes) /\ kb.op.dev \notin DOMAIN kb.op.pre.cache)
                  => kb.KBTYPE = UncachedKBtype(kb.op.dev).type

\* a device whose checks give another type than the override was evaluated
\* under the override, with other devices already cached
C39_Witness ==
    /\ kb.op.op = "eval"
    /\ InList(kb.op.pre.override, valid_kbtypes)
    /\ kb.KBTYPE # UncachedKBtype(kb.op.dev).type
    /\ kb.op.dev \notin DOMAIN kb.cache
    /\ kb.cache # <<>>

====
